---- MODULE Spec2Model ----
(***************************************************************************)
(* pumpe: the Gate Set (gate/gate.go), the Tor gate's refresh (gate/tor.go) *)
(* and the in-flight accounting of the proxy pipelines (service/pumpe.go).  *)
(*                                                                          *)
(* Every step of an action is one access to shared memory in the source:    *)
(* one atomic load or compare-and-swap, one critical section of a map or of *)
(* the request counter, one channel operation.  Statements that touch only  *)
(* locals are folded into the step that follows them.                       *)
(***************************************************************************)
EXTENDS Integers, FiniteSets, Sequences, TLC

(***************************************************************************)
(* Bounds of the model.                                                     *)
(***************************************************************************)
NumReq == 1      \* proxy request handlers running concurrently
NumMgmt == 2     \* management callers running concurrently
NumTor == 1      \* Tor gates handed to NewSet
NumFresh == 1    \* Tor gates the factory can still create
NumWG == 1       \* WireGuard gates handed to NewSet
TorMax == 1      \* SetConfig.TorMax
MaxCalls == 1    \* calls each caller makes
MaxNreq == 3     \* requests counted on one gate, in the counter's own checks

Reqs == 1..NumReq
Mgmts == (NumReq + 1)..(NumReq + NumMgmt)
Procs == Reqs \cup Mgmts

(***************************************************************************)
(* Kinds, gate identifiers, states and errors.                              *)
(***************************************************************************)
KindUnknown == "unknown"
KindDirect == "direct"
KindTor == "tor"
KindWireGuard == "wireguard"
Kinds == {KindDirect, KindTor, KindWireGuard}

\* A gate is identified by its id; the model writes an id as <<kind, n>>.
DirectID == <<KindDirect, 0>>
NilID == <<KindUnknown, 0>>
TorIDs == {<<KindTor, i>> : i \in 1..(NumTor + NumFresh)}
InitTorIDs == {<<KindTor, i>> : i \in 1..NumTor}
WGIDs == {<<KindWireGuard, i>> : i \in 1..NumWG}
Gates == {DirectID} \cup TorIDs \cup WGIDs

KindOf(g) == g[1]

stateReady == "Ready"
stateMaintenance == "Maintenance"
stateClosed == "Closed"
States == {stateReady, stateMaintenance, stateClosed}

ErrNil == "nil"
ErrNone == "none"                      \* the call has not returned yet
ErrKindUnknown == "ErrKindUnknown"
ErrKindNotSupported == "ErrKindNotSupported"
ErrSetIsShutting == "ErrSetIsShutting"
ErrSetIsWarmingUp == "ErrSetIsWarmingUp"
ErrNoRandomGate == "ErrNoRandomGate"
ErrGateNotFound == "ErrGateNotFound"
ErrTorMaxReached == "ErrTorMaxReached"
ErrGateNotReady == "ErrGateNotReady"
ErrGateIsRefreshing == "ErrGateIsRefreshing"
ErrCtx == "ctx.Err"                    \* context.Canceled / DeadlineExceeded
ErrOther == "error"                    \* an error of a collaborator
ErrJoined == "errors.Join"             \* the non-nil join of per-gate errors
ErrInvalidUUID == "ErrInvalidUUID"
ErrInvalidParam == "ErrInvalidParam"
ErrBody == "io/json error"            \* io.ReadAll or json.Unmarshal failed
ErrCanceled == "context.Canceled"
ErrDeadlineExceeded == "context.DeadlineExceeded"
ErrHijackingNotSupported == "ErrHijackingNotSupported"

VARIABLES
    gst,         \* gateState.state of every gate
    nreq,        \* gateState.nreq of every gate
    refreshing,  \* Tor.refreshing of every Tor gate
    tgs,         \* Set.tgs: the ids in the Tor map
    wgs,         \* Set.wgs: the ids in the WireGuard map
    shutting,    \* Set.shutting is closed
    once,        \* Set.onceShut: "new", "running" or "done"
    nmade,       \* gates the Tor factory has created
    ncalls,      \* calls each caller has made
    pc,          \* where each caller is
    op,          \* the public operation each caller runs (or ran last)
    gt,          \* the gate (id) a caller works on
    knd,         \* the kind argument of ByKind / New
    origst,      \* forState's origst
    res,         \* the error the caller's last call returned
    gor,         \* the goroutine refreshOne / shutdownOne started for a caller
    shutGor,     \* Shutdown fan-out: the goroutine closing each gate
    shutTask,    \* Shutdown fan-out: shutdownOne's select for each gate
    errs,        \* Shutdown: the errors collected by the call that fans out
    startShut,   \* history: the latch was closed when the call started
    refWith,     \* history: callers whose refresh overlapped a caller's
    warming,     \* Set.warming is 1
    warmGor,     \* Warmup fan-out: the goroutine warming each gate up
    warmTask,    \* Warmup fan-out: warmupOne's select for each gate
    warmBy,      \* history: the caller whose Warmup last fanned out to a gate
    rq,          \* HandleHTTP: the header of the incoming request
    call,        \* pipeline: the gateSet method pickDialer called
    dreq,        \* pipeline: AddReq minus DidReq on the picked dialer
    sent,        \* HandleHTTP: the header of the request handed to Do
    rs,          \* HandleHTTP: the header of the upstream response
    wr,          \* HandleHTTP: the header written to the client
    hpc,         \* pipeline: where the handler is
    hres,        \* pipeline: the error the handler returned
    cw,          \* HandleConnect: what was written to the hijacked connection
    xfer,        \* HandleConnect: each xferData: <<"none" | "run" | "done", bytes copied>>
    mop,         \* management handler: list, create, refresh or stop
    mparam,      \* management handler: the request's body or id parameter
    merr,        \* management handler: the error the service returns
    mstatus,     \* management handler: the status written, 0 before
    mrep,        \* management handler: the error written in the body
    kin,         \* Kind: a kind to render
    raw,         \* Kind: a text to parse
    kstr,        \* Kind: <<kin.String()>>, <<>> before
    pk,          \* Kind: ParseKind(raw), <<>> before
    rk           \* Kind: ParseKind(kin.String()), <<>> before

vars == <<gst, nreq, refreshing, tgs, wgs, shutting, once, nmade, ncalls, pc,
          op, gt, knd, origst, res, gor, shutGor, shutTask, errs, startShut,
          refWith, warming, warmGor, warmTask, warmBy, rq, call, dreq, sent,
          rs, wr, hpc, hres, cw, xfer, mop, mparam, merr, mstatus, mrep, kin, raw, kstr,
          pk, rk>>

gateVars == <<gst, nreq, refreshing>>
mapVars == <<tgs, wgs>>
shutVars == <<shutting, once, shutGor, shutTask, errs>>
histVars == <<ncalls, startShut, refWith>>
warmVars == <<warming, warmGor, warmTask, warmBy>>
svcVars == <<rq, call, dreq, sent, rs, wr, hpc, hres, cw, xfer>>
mgmtVars == <<mop, mparam, merr, mstatus, mrep>>
kindVars == <<kin, raw, kstr, pk, rk>>
webVars == <<svcVars, mgmtVars, kindVars>>
setVars == <<gateVars, mapVars, shutVars, histVars, warmVars, nmade, pc, op,
             gt, knd, origst, res, gor>>

(***************************************************************************)
(* gateState: compare-and-swap transitions and the request counter.         *)
(***************************************************************************)
\* atomic.CompareAndSwapUint32(&s.state.value, old, new): the value after it.
CompareAndSwap(cur, old, new) == IF cur = old THEN new ELSE cur

\* Faulty variant: toReady as a plain store.
toReadyStore(s) == stateReady

toReady(s) == CompareAndSwap(s, stateMaintenance, stateReady)

toMaint(s) == CompareAndSwap(s, stateReady, stateMaintenance)

\* toClosed is two compare-and-swaps; the second runs only if the first failed.
toClosed1(s) == CompareAndSwap(s, stateReady, stateClosed)

toClosed2(s) == CompareAndSwap(s, stateMaintenance, stateClosed)

addReq(n) == n + 1

\* Faulty variant: didReq without the test for zero.
didReqNoTest(n) == n - 1

didReq(n) == IF n > 0 THEN n - 1 ELSE n

\* Faulty variant: resetReqs leaving the counter as it is.
resetReqsKeep(n) == n

resetReqs(n) == 0

noReqs(n) == n = 0

isReady(g) == gst[g] = stateReady

(***************************************************************************)
(* model.Set: the typed maps.                                               *)
(***************************************************************************)
MapOf(k) == IF k = KindTor THEN tgs ELSE IF k = KindWireGuard THEN wgs ELSE {}

\* Set.byID: the Direct gate, else the Tor map, else the WireGuard map.
byID(id) == IF id = DirectID THEN id
            ELSE IF id \in tgs THEN id
            ELSE IF id \in wgs THEN id
            ELSE NilID

isShutting == shutting

(***************************************************************************)
(* HTTP headers.  A header is a function from the canonical names to the    *)
(* list of the values sent under the name, the empty list standing for an   *)
(* absent name.  A value is the list of its tokens: words, "," and " "; the *)
(* empty list is the empty string.                                          *)
(***************************************************************************)
headerProxyGateID == "Proxy-Pumpe-Gate-Id"
headerProxyGateType == "Proxy-Pumpe-Gate-Type"

\* Faulty variant: the hop-by-hop list without the two steering headers.
newHopHeadersStd ==
    <<"Connection", "Keep-Alive", "Proxy-Authenticate", "Proxy-Authorization",
      "Proxy-Connection", "Te", "Trailer", "Transfer-Encoding", "Upgrade">>

newHopHeaders ==
    <<"Connection", "Keep-Alive", "Proxy-Authenticate", "Proxy-Authorization",
      "Proxy-Connection", "Te", "Trailer", "Transfer-Encoding", "Upgrade",
      headerProxyGateID, headerProxyGateType>>

\* The hop-by-hop names other than Connection and the steering headers.
PlainHop ==
    {"Keep-Alive", "Proxy-Authenticate", "Proxy-Authorization",
     "Proxy-Connection", "Te", "Trailer", "Transfer-Encoding", "Upgrade"}

HdrNames ==
    PlainHop \cup
    {"Connection", headerProxyGateID, headerProxyGateType, "X-Custom",
     "X-Other", "Close", "X-Forwarded-For", "Content-Type",
     "X-Content-Type-Options"}

EmptyHdr == [n \in HdrNames |-> <<>>]

\* textproto.CanonicalMIMEHeaderKey, which Header.Get and Header.Del apply to
\* their key, on the words the model sends.
CanonicalMIMEHeaderKey(w) ==
    CASE w = "keep-alive" -> "Keep-Alive"
      [] w = "x-custom" -> "X-Custom"
      [] w = "close" -> "Close"
      [] w = "connection" -> "Connection"
      [] OTHER -> w

\* http.Header.Get: the first value under the key, "" without one.
Get(hdr, key) ==
    LET k == CanonicalMIMEHeaderKey(key)
    IN  IF k \in HdrNames /\ hdr[k] # <<>> THEN hdr[k][1] ELSE <<>>

\* http.Header.Del.
Del(hdr, key) ==
    LET k == CanonicalMIMEHeaderKey(key)
    IN  IF k \in HdrNames THEN [hdr EXCEPT ![k] = <<>>] ELSE hdr

RECURSIVE delHeaders(_, _)
delHeaders(list, hdr) ==
    IF list = <<>> THEN hdr
    ELSE delHeaders(Tail(list), Del(hdr, Head(list)))

\* strings.Split(v, ",").
RECURSIVE Split(_)
Split(v) ==
    IF \A i \in 1..Len(v) : v[i] # "," THEN <<v>>
    ELSE LET i == CHOOSE j \in 1..Len(v) :
                     v[j] = "," /\ \A k \in 1..(j - 1) : v[k] # ","
         IN  <<SubSeq(v, 1, i - 1)>> \o Split(SubSeq(v, i + 1, Len(v)))

RECURSIVE TrimSpace(_)
TrimSpace(v) ==
    IF v # <<>> /\ Head(v) = " " THEN TrimSpace(Tail(v))
    ELSE IF v # <<>> /\ v[Len(v)] = " "
         THEN TrimSpace(SubSeq(v, 1, Len(v) - 1))
         ELSE v

\* A value as a header key: one word names a header, anything longer is no
\* name a parsed header carries.
KeyOf(v) == IF Len(v) = 1 THEN v[1] ELSE ""

\* delConnectionHeaders, the loop over the pieces of one Connection value.
RECURSIVE delPieces(_, _)
delPieces(ss, hdr) ==
    IF ss = <<>> THEN hdr
    ELSE LET v == TrimSpace(Head(ss))
         IN  delPieces(Tail(ss), IF v # <<>> THEN Del(hdr, KeyOf(v)) ELSE hdr)

\* delConnectionHeaders, the loop over the values h of the Connection header.
RECURSIVE delValues(_, _)
delValues(h, hdr) ==
    IF h = <<>> THEN hdr
    ELSE delValues(Tail(h), delPieces(Split(Head(h)), hdr))

delConnectionHeaders(hdr) == delValues(hdr["Connection"], hdr)

\* strings.Join(ex, ", ").
RECURSIVE Join(_)
Join(ex) ==
    IF Len(ex) = 1 THEN ex[1] ELSE ex[1] \o <<",", " ">> \o Join(Tail(ex))

addHostToXForwardedHeader(hdr, host) ==
    LET ex == hdr["X-Forwarded-For"]
    IN  [hdr EXCEPT !["X-Forwarded-For"] =
            IF ex # <<>> THEN <<Join(ex) \o <<",", " ", host>>>>
            ELSE <<<<host>>>>]

copyHeader(dst, src) == [n \in HdrNames |-> dst[n] \o src[n]]

\* web.WriteError: the two headers it sets.
WriteError(hdr) ==
    [hdr EXCEPT !["Content-Type"] = <<<<"text/plain; charset=utf-8">>>>,
                !["X-Content-Type-Options"] = <<<<"nosniff">>>>]

\* uuid.Parse on the texts the model sends: the forms it accepts of one id,
\* a second id, and a text that is no UUID.  The result is <<id, ok>>.
UUID1 == "6ba7b810-9dad-11d1-80b4-00c04fd430c8"
UUID2 == "6ba7b811-9dad-11d1-80b4-00c04fd430c8"

uuidParse(v) ==
    IF Len(v) # 1 THEN <<"", FALSE>>
    ELSE CASE v[1] = UUID1 -> <<UUID1, TRUE>>
           [] v[1] = "urn:uuid:6ba7b810-9dad-11d1-80b4-00c04fd430c8"
                 -> <<UUID1, TRUE>>
           [] v[1] = "{6ba7b810-9dad-11d1-80b4-00c04fd430c8}"
                 -> <<UUID1, TRUE>>
           [] v[1] = "6ba7b8109dad11d180b400c04fd430c8" -> <<UUID1, TRUE>>
           [] v[1] = UUID2 -> <<UUID2, TRUE>>
           [] OTHER -> <<"", FALSE>>

\* Faulty variant: pickDialer looking at the type header first.
pickDialerTypeFirst(hdr) ==
    LET id == Get(hdr, headerProxyGateID)
        kind == Get(hdr, headerProxyGateType)
    IN  IF kind # <<>> THEN <<"ByKind", kind>>
        ELSE IF id # <<>>
             THEN IF uuidParse(id)[2] THEN <<"ByID", uuidParse(id)[1]>>
                  ELSE <<"ErrInvalidUUID">>
             ELSE <<"Random">>

\* Pumpe.pickDialer: the gateSet method it calls, with the argument, or the
\* error it returns without calling one.
pickDialer(hdr) ==
    LET id == Get(hdr, headerProxyGateID)
        kind == Get(hdr, headerProxyGateType)
    IN  IF id # <<>>
        THEN IF uuidParse(id)[2] THEN <<"ByID", uuidParse(id)[1]>>
             ELSE <<"ErrInvalidUUID">>
        ELSE IF kind # <<>> THEN <<"ByKind", kind>>
             ELSE <<"Random">>

\* Faulty variant: ParseKind accepting every text that is a Kind constant.
ParseKindConst(t) ==
    IF t \in Kinds \cup {KindUnknown} THEN <<t, ErrNil>>
    ELSE <<KindUnknown, ErrKindUnknown>>

\* ParseKind(raw): <<kind, error>>.
ParseKind(t) ==
    CASE t = KindDirect -> <<KindDirect, ErrNil>>
      [] t = KindTor -> <<KindTor, ErrNil>>
      [] t = KindWireGuard -> <<KindWireGuard, ErrNil>>
      [] OTHER -> <<KindUnknown, ErrKindUnknown>>

\* Kind.String: string(x), a Kind being a string.
String(x) == x

\* No management request and no Kind conversion is under way.
MgmtIdle ==
    /\ mop = "none" /\ mparam = <<>> /\ merr = {} /\ mstatus = 0
    /\ mrep = {}

KindIdle ==
    /\ kin = KindUnknown /\ raw = "" /\ kstr = <<>> /\ pk = <<>> /\ rk = <<>>

\* No request is in the HTTP pipeline.
\* The two directions of a tunnel: xferData(dstConn, srcConn) copies up,
\* xferData(srcConn, dstConn) copies down, to the hijacked connection.
Dirs == {"up", "down"}

SvcIdle ==
    /\ rq = EmptyHdr /\ sent = EmptyHdr /\ rs = EmptyHdr /\ wr = EmptyHdr
    /\ call = <<>> /\ dreq = 0 /\ hpc = "idle" /\ hres = ErrNone
    /\ cw = <<>> /\ xfer = [d \in Dirs |-> <<"none", 0>>]

InitSet ==
    /\ gst = [g \in Gates |-> stateReady]
    /\ nreq = [g \in Gates |-> 0]
    /\ refreshing = [g \in TorIDs |-> FALSE]
    /\ tgs \in SUBSET InitTorIDs
    /\ wgs = WGIDs
    /\ shutting = FALSE
    /\ once = "new"
    /\ nmade = 0
    /\ ncalls = [p \in Procs |-> 0]
    /\ pc = [p \in Procs |-> "idle"]
    /\ op = [p \in Procs |-> "none"]
    /\ gt = [p \in Procs |-> NilID]
    /\ knd = [p \in Procs |-> KindUnknown]
    /\ origst = [p \in Procs |-> stateReady]
    /\ res = [p \in Procs |-> ErrNone]
    /\ gor = [p \in Procs |-> "none"]
    /\ shutGor = [g \in Gates |-> "none"]
    /\ shutTask = [g \in Gates |-> "none"]
    /\ errs = {}
    /\ startShut = [p \in Procs |-> FALSE]
    /\ refWith = [p \in Procs |-> {}]
    /\ warming = FALSE
    /\ warmGor = [g \in Gates |-> "none"]
    /\ warmTask = [g \in Gates |-> "none"]
    /\ warmBy = [g \in Gates |-> 0]

\* The Set as NewSet built it from the initial Tor and WireGuard gates; no
\* request is in the HTTP pipeline.
Init == InitSet /\ SvcIdle /\ MgmtIdle /\ KindIdle

\* A caller is between calls: it never called, or its last call returned.
RetPCs == {"idle", "ret_pick", "ret_req", "ret_direct", "ret_byID", "ret_kind",
           "ret_forState", "ret_refreshOne", "ret_toState", "ret_shutdownOne",
           "ret_New", "ret_Shutdown", "ret_Warmup"}

Returned(p) == pc[p] \in RetPCs

\* The goroutine a call left behind is still running.
GorLive(p) == gor[p] \in {"spawned", "running"}

\* A caller may start its next call.  Callers of one sort are interchangeable,
\* so they are numbered in the order of their first calls.
CanStart(p) ==
    /\ Returned(p) /\ ~GorLive(p)
    /\ ncalls[p] < MaxCalls
    /\ (p - 1 \in Reqs <=> p \in Reqs) => ncalls[p - 1] > 0

\* What every call's first step does to the caller's bookkeeping.
Begin(p, o, g, k, at, err) ==
    /\ ncalls' = [ncalls EXCEPT ![p] = @ + 1]
    /\ op' = [op EXCEPT ![p] = o]
    /\ gt' = [gt EXCEPT ![p] = g]
    /\ knd' = [knd EXCEPT ![p] = k]
    /\ pc' = [pc EXCEPT ![p] = at]
    /\ res' = [res EXCEPT ![p] = err]
    /\ gor' = [gor EXCEPT ![p] = "none"]
    /\ origst' = [origst EXCEPT ![p] = stateReady]
    /\ startShut' = [startShut EXCEPT ![p] = shutting]
    /\ refWith' = [q \in Procs |-> IF q = p THEN {} ELSE refWith[q] \ {p}]

\* A call returns err at the return site `at`.
Return(p, at, err) ==
    /\ pc' = [pc EXCEPT ![p] = at]
    /\ res' = [res EXCEPT ![p] = err]

Goto(p, at) == pc' = [pc EXCEPT ![p] = at]

(***************************************************************************)
(* The proxy pipelines: pickDialer, AddReq, the transfer, DidReq.           *)
(***************************************************************************)
\* pickDialer with a Proxy-Pumpe-Gate-Id header: Set.ByID(id), up to and
\* including its s.byID(id).
PickByID(p) ==
    /\ p \in Reqs /\ CanStart(p)
    /\ \E id \in Gates :
          IF byID(id) = NilID
          THEN Begin(p, "ByID", id, KindUnknown, "ret_pick", ErrGateNotFound)
          ELSE Begin(p, "ByID", id, KindUnknown, "B_ready", ErrNone)
    /\ UNCHANGED <<gateVars, mapVars, shutVars, warmVars, webVars, nmade>>

\* Faulty variant: ByID without the isReady test.
ByIDReadyNoTest(p) ==
    /\ pc[p] = "B_ready"
    /\ Goto(p, "addReq")
    /\ UNCHANGED <<gateVars, mapVars, shutVars, warmVars, webVars, nmade, op,
                   gt, knd, origst, res, gor, histVars>>

\* result.isReady() inside ByID.
ByIDReady(p) ==
    /\ pc[p] = "B_ready"
    /\ IF isReady(gt[p])
       THEN Goto(p, "addReq") /\ UNCHANGED res
       ELSE Return(p, "ret_pick", ErrGateNotReady)
    /\ UNCHANGED <<gateVars, mapVars, shutVars, warmVars, webVars, nmade, op,
                   gt, knd, origst, gor, histVars>>

\* pickDialer with a Proxy-Pumpe-Gate-Type header, or Set.Random: ByKind(kind),
\* up to and including byKindReady's first isShutting poll.  ByKind returns the
\* Direct gate at once, without looking at its state.
PickByKind(p) ==
    /\ p \in Reqs /\ CanStart(p)
    /\ \E k \in Kinds :
          IF k = KindDirect
          THEN Begin(p, "ByKind", DirectID, k, "addReq", ErrNone)
          ELSE IF isShutting
          THEN Begin(p, "ByKind", NilID, k, "ret_pick", ErrSetIsShutting)
          ELSE Begin(p, "ByKind", NilID, k, "K_pick", ErrNone)
    /\ UNCHANGED <<gateVars, mapVars, shutVars, warmVars, webVars, nmade>>

\* byKindReady: the isShutting poll at the top of a later turn of the loop.
ByKindShut(p) ==
    /\ pc[p] = "K_shut"
    /\ IF isShutting
       THEN Return(p, "ret_pick", ErrSetIsShutting)
       ELSE Goto(p, "K_pick") /\ UNCHANGED res
    /\ UNCHANGED <<gateVars, mapVars, shutVars, warmVars, webVars, nmade, op,
                   gt, knd, origst, gor, histVars>>

\* Faulty variant: byKind picking from both maps, whatever the kind.
ByKindPickAny(p) ==
    /\ pc[p] = "K_pick"
    /\ IF tgs \cup wgs = {}
       THEN Return(p, "ret_pick", ErrNoRandomGate) /\ UNCHANGED gt
       ELSE /\ \E g \in tgs \cup wgs : gt' = [gt EXCEPT ![p] = g]
            /\ Goto(p, "K_ready") /\ UNCHANGED res
    /\ UNCHANGED <<gateVars, mapVars, shutVars, warmVars, webVars, nmade, op,
                   knd, origst, gor, histVars>>

\* byKind: model.Set.Random on the kind's map.
ByKindPick(p) ==
    /\ pc[p] = "K_pick"
    /\ IF MapOf(knd[p]) = {}
       THEN Return(p, "ret_pick", ErrNoRandomGate) /\ UNCHANGED gt
       ELSE /\ \E g \in MapOf(knd[p]) : gt' = [gt EXCEPT ![p] = g]
            /\ Goto(p, "K_ready") /\ UNCHANGED res
    /\ UNCHANGED <<gateVars, mapVars, shutVars, warmVars, webVars, nmade, op,
                   knd, origst, gor, histVars>>

\* byKindReady: result.isReady(), and on false the select on rctx.Done() and
\* the ticker.
ByKindReady(p) ==
    /\ pc[p] = "K_ready"
    /\ IF isReady(gt[p])
       THEN Goto(p, "addReq") /\ UNCHANGED res
       ELSE \/ Return(p, "ret_pick", ErrCtx)
            \/ Goto(p, "K_shut") /\ UNCHANGED res
    /\ UNCHANGED <<gateVars, mapVars, shutVars, warmVars, webVars, nmade, op,
                   gt, knd, origst, gor, histVars>>

\* HandleConnect / HandleHTTP: dialer.AddReq().
AddReq(p) ==
    /\ pc[p] = "addReq"
    /\ nreq' = [nreq EXCEPT ![gt[p]] = addReq(@)]
    /\ Goto(p, "inflight")
    /\ UNCHANGED <<gst, refreshing, mapVars, shutVars, warmVars, webVars,
                   nmade, op, gt, knd, origst, res, gor, histVars>>

\* HandleConnect / HandleHTTP: the transfer ends and the deferred DidReq runs.
\* (Whether the transfer itself failed is not recorded.)
DidReq(p) ==
    /\ pc[p] = "inflight"
    /\ nreq' = [nreq EXCEPT ![gt[p]] = didReq(@)]
    /\ Return(p, "ret_req", ErrNil)
    /\ UNCHANGED <<gst, refreshing, mapVars, shutVars, warmVars, webVars,
                   nmade, op, gt, knd, origst, gor, histVars>>

Request(p) ==
    \/ PickByID(p) \/ ByIDReady(p)
    \/ PickByKind(p) \/ ByKindShut(p) \/ ByKindPick(p) \/ ByKindReady(p)
    \/ AddReq(p) \/ DidReq(p)

(***************************************************************************)
(* RefreshOne and CloseOne: byID, forState, refreshOne / shutdownOne,       *)
(* toState.                                                                 *)
(***************************************************************************)
\* The state forState moves the gate to.
TargetOf(o) == IF o = "RefreshOne" THEN stateMaintenance ELSE stateClosed

\* model.Set.Remove / model.Set.Set on the map of the gate's kind.
Remove(g) ==
    /\ tgs' = IF KindOf(g) = KindTor THEN tgs \ {g} ELSE tgs
    /\ wgs' = IF KindOf(g) = KindWireGuard THEN wgs \ {g} ELSE wgs

Insert(g) ==
    /\ tgs' = IF KindOf(g) = KindTor THEN tgs \cup {g} ELSE tgs
    /\ wgs' = IF KindOf(g) = KindWireGuard THEN wgs \cup {g} ELSE wgs

\* Faulty variant: RefreshOne without the test of the gate's kind.
StartRefreshOneNoKind(p) ==
    /\ p \in Mgmts /\ CanStart(p)
    /\ \E id \in Gates :
          IF id = DirectID
          THEN Begin(p, "RefreshOne", id, KindUnknown, "ret_direct",
                     ErrKindNotSupported)
          ELSE IF byID(id) = NilID
          THEN Begin(p, "RefreshOne", id, KindUnknown, "ret_byID",
                     ErrGateNotFound)
          ELSE Begin(p, "RefreshOne", id, KindUnknown, "F_orig", ErrNone)
    /\ UNCHANGED <<gateVars, mapVars, shutVars, warmVars, webVars, nmade>>

\* RefreshOne(ctx, id), up to the call of forState: the Direct id is refused,
\* then s.byID(id), then gt.Kind() != KindTor.
StartRefreshOne(p) ==
    /\ p \in Mgmts /\ CanStart(p)
    /\ \E id \in Gates :
          IF id = DirectID
          THEN Begin(p, "RefreshOne", id, KindUnknown, "ret_direct",
                     ErrKindNotSupported)
          ELSE IF byID(id) = NilID
          THEN Begin(p, "RefreshOne", id, KindUnknown, "ret_byID",
                     ErrGateNotFound)
          ELSE IF KindOf(id) # KindTor
          THEN Begin(p, "RefreshOne", id, KindUnknown, "ret_kind",
                     ErrKindNotSupported)
          ELSE Begin(p, "RefreshOne", id, KindUnknown, "F_orig", ErrNone)
    /\ UNCHANGED <<gateVars, mapVars, shutVars, warmVars, webVars, nmade>>

\* Faulty variant: CloseOne without the test for the Direct id.
StartCloseOneNoDirect(p) ==
    /\ p \in Mgmts /\ CanStart(p)
    /\ \E id \in Gates :
          IF byID(id) = NilID
          THEN Begin(p, "CloseOne", id, KindUnknown, "ret_byID",
                     ErrGateNotFound)
          ELSE Begin(p, "CloseOne", id, KindUnknown, "F_orig", ErrNone)
    /\ UNCHANGED <<gateVars, mapVars, shutVars, warmVars, webVars, nmade>>

\* CloseOne(ctx, id), up to the call of forState: the Direct id is refused,
\* then s.byID(id).
StartCloseOne(p) ==
    /\ p \in Mgmts /\ CanStart(p)
    /\ \E id \in Gates :
          IF id = DirectID
          THEN Begin(p, "CloseOne", id, KindUnknown, "ret_direct",
                     ErrKindNotSupported)
          ELSE IF byID(id) = NilID
          THEN Begin(p, "CloseOne", id, KindUnknown, "ret_byID",
                     ErrGateNotFound)
          ELSE Begin(p, "CloseOne", id, KindUnknown, "F_orig", ErrNone)
    /\ UNCHANGED <<gateVars, mapVars, shutVars, warmVars, webVars, nmade>>

\* forState: origst := gt.getState().
ForStateOrig(p) ==
    /\ pc[p] = "F_orig"
    /\ origst' = [origst EXCEPT ![p] = gst[gt[p]]]
    /\ Goto(p, "F_cas")
    /\ UNCHANGED <<gateVars, mapVars, shutVars, warmVars, webVars, nmade, op,
                   gt, knd, res, gor, histVars>>

\* forState: gt.toState(st), the first compare-and-swap.
ForStateCas(p) ==
    /\ pc[p] = "F_cas"
    /\ IF TargetOf(op[p]) = stateMaintenance
       THEN /\ gst' = [gst EXCEPT ![gt[p]] = toMaint(@)]
            /\ Goto(p, "F_remove")
       ELSE /\ gst' = [gst EXCEPT ![gt[p]] = toClosed1(@)]
            /\ Goto(p, IF gst[gt[p]] = stateReady THEN "F_remove" ELSE "F_cas2")
    /\ UNCHANGED <<nreq, refreshing, mapVars, shutVars, warmVars, webVars,
                   nmade, op, gt, knd, origst, res, gor, histVars>>

\* forState: gt.toState(stateClosed), the second compare-and-swap.
ForStateCas2(p) ==
    /\ pc[p] = "F_cas2"
    /\ gst' = [gst EXCEPT ![gt[p]] = toClosed2(@)]
    /\ Goto(p, "F_remove")
    /\ UNCHANGED <<nreq, refreshing, mapVars, shutVars, warmVars, webVars,
                   nmade, op, gt, knd, origst, res, gor, histVars>>

\* forState: s.tgs.Remove(id) / s.wgs.Remove(id).
ForStateRemove(p) ==
    /\ pc[p] = "F_remove"
    /\ Remove(gt[p])
    /\ Goto(p, "F_shut")
    /\ UNCHANGED <<gateVars, shutVars, warmVars, webVars, nmade, op, gt, knd,
                   origst, res, gor, histVars>>

\* Faulty variant: forState reverting the gate when the latch has fired.
ForStateShutRevert(p) ==
    /\ pc[p] = "F_shut"
    /\ IF isShutting THEN Goto(p, "TR_reset") ELSE Goto(p, "F_noReqs")
    /\ UNCHANGED <<gateVars, mapVars, shutVars, warmVars, webVars, nmade, op,
                   gt, knd, origst, res, gor, histVars>>

\* forState: the isShutting poll at the top of the loop.
ForStateShut(p) ==
    /\ pc[p] = "F_shut"
    /\ IF isShutting
       THEN Return(p, "ret_forState", ErrSetIsShutting)
       ELSE Goto(p, "F_noReqs") /\ UNCHANGED res
    /\ UNCHANGED <<gateVars, mapVars, shutVars, warmVars, webVars, nmade, op,
                   gt, knd, origst, gor, histVars>>

\* forState: gt.noReqs().  On true forState returns nil and the caller starts
\* the goroutine of refreshOne / shutdownOne; on false the select takes
\* rctx.Done() or the ticker.
ForStateNoReqs(p) ==
    /\ pc[p] = "F_noReqs"
    /\ IF noReqs(nreq[gt[p]])
       THEN /\ Goto(p, "G_wait")
            /\ gor' = [gor EXCEPT ![p] = "spawned"]
            /\ refWith' = [refWith EXCEPT ![p] =
                  {q \in Mgmts \ {p} : /\ op[q] = op[p] /\ gt[q] = gt[p]
                                       /\ GorLive(q)}]
       ELSE /\ Goto(p, "TR_reset") \/ Goto(p, "F_shut")
            /\ UNCHANGED <<gor, refWith>>
    /\ UNCHANGED <<gateVars, mapVars, shutVars, warmVars, webVars, nmade, op,
                   gt, knd, origst, res, startShut, ncalls>>

\* toState: gt.resetReqs().
ToStateReset(p, at, to) ==
    /\ pc[p] = at
    /\ nreq' = [nreq EXCEPT ![gt[p]] = resetReqs(@)]
    /\ Goto(p, to)
    /\ UNCHANGED <<gst, refreshing, mapVars, shutVars, warmVars, webVars,
                   nmade, op, gt, knd, origst, res, gor, histVars>>

\* toState: gt.toState(st), the first compare-and-swap.
ToStateCas(p, at, st, to2, to) ==
    /\ pc[p] = at
    /\ gst' = [gst EXCEPT ![gt[p]] =
                  IF st = stateReady THEN toReady(@)
                  ELSE IF st = stateMaintenance THEN toMaint(@)
                  ELSE toClosed1(@)]
    /\ Goto(p, IF st = stateClosed /\ gst[gt[p]] # stateReady THEN to2 ELSE to)
    /\ UNCHANGED <<nreq, refreshing, mapVars, shutVars, warmVars, webVars,
                   nmade, op, gt, knd, origst, res, gor, histVars>>

\* toState: gt.toState(stateClosed), the second compare-and-swap.
ToStateCas2(p, at, to) ==
    /\ pc[p] = at
    /\ gst' = [gst EXCEPT ![gt[p]] = toClosed2(@)]
    /\ Goto(p, to)
    /\ UNCHANGED <<nreq, refreshing, mapVars, shutVars, warmVars, webVars,
                   nmade, op, gt, knd, origst, res, gor, histVars>>

\* toState: s.tgs.Set / s.wgs.Set, and the return of toState's caller.
ToStateSet(p, at, ret, err) ==
    /\ pc[p] = at
    /\ Insert(gt[p])
    /\ Return(p, ret, err)
    /\ UNCHANGED <<gateVars, shutVars, warmVars, webVars, nmade, op, gt, knd,
                   origst, gor, histVars>>

\* forState on rctx.Done(): _ = s.toState(gt, origst); return rctx.Err().
RestoreReset(p) == ToStateReset(p, "TR_reset", "TR_cas")

RestoreCas(p) == ToStateCas(p, "TR_cas", origst[p], "TR_cas2", "TR_set")

RestoreCas2(p) == ToStateCas2(p, "TR_cas2", "TR_set")

RestoreSet(p) == ToStateSet(p, "TR_set", "ret_forState", ErrCtx)

\* RefreshOne: return s.toState(gt, stateReady).
ReadmitReset(p) == ToStateReset(p, "TC_reset", "TC_cas")

ReadmitCas(p) == ToStateCas(p, "TC_cas", stateReady, "TC_cas", "TC_set")

ReadmitSet(p) == ToStateSet(p, "TC_set", "ret_toState", ErrNil)

\* Faulty variant: Tor.refresh without the compare-and-swap's test.
RefreshCasNoTest(p) ==
    /\ op[p] = "RefreshOne" /\ gor[p] = "spawned"
    /\ refreshing' = [refreshing EXCEPT ![gt[p]] = TRUE]
    /\ gor' = [gor EXCEPT ![p] = "running"]
    /\ UNCHANGED <<gst, nreq, mapVars, shutVars, warmVars, webVars, nmade, pc,
                   op, gt, knd, origst, res, histVars>>

\* Tor.refresh in refreshOne's goroutine: the compare-and-swap on refreshing.
RefreshCas(p) ==
    /\ op[p] = "RefreshOne" /\ gor[p] = "spawned"
    /\ IF refreshing[gt[p]]
       THEN gor' = [gor EXCEPT ![p] = "busy"] /\ UNCHANGED refreshing
       ELSE /\ refreshing' = [refreshing EXCEPT ![gt[p]] = TRUE]
            /\ gor' = [gor EXCEPT ![p] = "running"]
    /\ UNCHANGED <<gst, nreq, mapVars, shutVars, warmVars, webVars, nmade, pc,
                   op, gt, knd, origst, res, histVars>>

\* Faulty variant: Tor.refresh without the deferred store.
RefreshSignalNoStore(p) ==
    /\ op[p] = "RefreshOne" /\ gor[p] = "running"
    /\ \E r \in {"ok", "err"} : gor' = [gor EXCEPT ![p] = r]
    /\ UNCHANGED <<gst, nreq, refreshing, mapVars, shutVars, warmVars, webVars,
                   nmade, pc, op, gt, knd, origst, res, histVars>>

\* Tor.refresh: g.dev.signal("NEWNYM") returns and the deferred store clears
\* refreshing.
RefreshSignal(p) ==
    /\ op[p] = "RefreshOne" /\ gor[p] = "running"
    /\ refreshing' = [refreshing EXCEPT ![gt[p]] = FALSE]
    /\ \E r \in {"ok", "err"} : gor' = [gor EXCEPT ![p] = r]
    /\ UNCHANGED <<gst, nreq, mapVars, shutVars, warmVars, webVars, nmade, pc,
                   op, gt, knd, origst, res, histVars>>

\* Faulty variant: a failed refresh putting the gate back in its map.
RefreshRecvPutBack(p) ==
    /\ pc[p] = "G_wait" /\ op[p] = "RefreshOne"
    /\ gor[p] \in {"ok", "err", "busy"}
    /\ IF gor[p] = "ok"
       THEN Goto(p, "TC_reset") /\ UNCHANGED <<res, mapVars>>
       ELSE /\ Return(p, "ret_refreshOne",
                      IF gor[p] = "busy" THEN ErrGateIsRefreshing ELSE ErrOther)
            /\ Insert(gt[p])
    /\ UNCHANGED <<gateVars, shutVars, warmVars, webVars, nmade, op, gt, knd,
                   origst, gor, histVars>>

\* refreshOne: the select receives from errc.
RefreshRecv(p) ==
    /\ pc[p] = "G_wait" /\ op[p] = "RefreshOne"
    /\ gor[p] \in {"ok", "err", "busy"}
    /\ IF gor[p] = "ok" THEN Goto(p, "TC_reset") /\ UNCHANGED res
       ELSE Return(p, "ret_refreshOne",
                   IF gor[p] = "busy" THEN ErrGateIsRefreshing ELSE ErrOther)
    /\ UNCHANGED <<gateVars, mapVars, shutVars, warmVars, webVars, nmade, op,
                   gt, knd, origst, gor, histVars>>

\* refreshOne: the select takes ctx.Done(); the goroutine stays behind.
RefreshCtx(p) ==
    /\ pc[p] = "G_wait" /\ op[p] = "RefreshOne"
    /\ Return(p, "ret_refreshOne", ErrCtx)
    /\ UNCHANGED <<gateVars, mapVars, shutVars, warmVars, webVars, nmade, op,
                   gt, knd, origst, gor, histVars>>

\* shutdownOne's goroutine: clr.close() is invoked.
CloseStart(p) ==
    /\ op[p] = "CloseOne" /\ gor[p] = "spawned"
    /\ gor' = [gor EXCEPT ![p] = "running"]
    /\ UNCHANGED <<gateVars, mapVars, shutVars, warmVars, webVars, nmade, pc,
                   op, gt, knd, origst, res, histVars>>

\* shutdownOne's goroutine: clr.close() returns.  Nobody reads the result
\* once the select has taken ctx.Done().
CloseEnd(p) ==
    /\ op[p] = "CloseOne" /\ gor[p] = "running"
    /\ IF pc[p] = "G_wait"
       THEN \E r \in {"ok", "err"} : gor' = [gor EXCEPT ![p] = r]
       ELSE gor' = [gor EXCEPT ![p] = "done"]
    /\ UNCHANGED <<gateVars, mapVars, shutVars, warmVars, webVars, nmade, pc,
                   op, gt, knd, origst, res, histVars>>

\* shutdownOne: the select receives from errc.
CloseRecv(p) ==
    /\ pc[p] = "G_wait" /\ op[p] = "CloseOne"
    /\ gor[p] \in {"ok", "err"}
    /\ Return(p, "ret_shutdownOne", IF gor[p] = "ok" THEN ErrNil ELSE ErrOther)
    /\ UNCHANGED <<gateVars, mapVars, shutVars, warmVars, webVars, nmade, op,
                   gt, knd, origst, gor, histVars>>

\* shutdownOne: the select takes ctx.Done(); the goroutine stays behind.
CloseCtx(p) ==
    /\ pc[p] = "G_wait" /\ op[p] = "CloseOne"
    /\ Return(p, "ret_shutdownOne", ErrCtx)
    /\ UNCHANGED <<gateVars, mapVars, shutVars, warmVars, webVars, nmade, op,
                   gt, knd, origst, gor, histVars>>

ForState(p) ==
    \/ ForStateOrig(p) \/ ForStateCas(p) \/ ForStateCas2(p)
    \/ ForStateRemove(p) \/ ForStateShut(p) \/ ForStateNoReqs(p)
    \/ RestoreReset(p) \/ RestoreCas(p) \/ RestoreCas2(p) \/ RestoreSet(p)

RefreshOne(p) ==
    \/ StartRefreshOne(p) \/ RefreshCas(p) \/ RefreshSignal(p)
    \/ RefreshRecv(p) \/ RefreshCtx(p)
    \/ ReadmitReset(p) \/ ReadmitCas(p) \/ ReadmitSet(p)

CloseOne(p) ==
    \/ StartCloseOne(p) \/ CloseStart(p) \/ CloseEnd(p)
    \/ CloseRecv(p) \/ CloseCtx(p)

(***************************************************************************)
(* New.                                                                     *)
(***************************************************************************)
\* New(ctx, kind) is called: kind != KindTor is refused.
StartNew(p) ==
    /\ p \in Mgmts /\ CanStart(p)
    /\ \E k \in Kinds :
          IF k # KindTor
          THEN Begin(p, "New", NilID, k, "ret_kind", ErrKindNotSupported)
          ELSE Begin(p, "New", NilID, k, "N_shut", ErrNone)
    /\ UNCHANGED <<gateVars, mapVars, shutVars, warmVars, webVars, nmade>>

\* Faulty variant: New without the isShutting check.
NewShutNoCheck(p) ==
    /\ pc[p] = "N_shut"
    /\ Goto(p, "N_len")
    /\ UNCHANGED <<gateVars, mapVars, shutVars, warmVars, webVars, nmade, op,
                   gt, knd, origst, res, gor, histVars>>

\* New: s.isShutting().
NewShut(p) ==
    /\ pc[p] = "N_shut"
    /\ IF isShutting
       THEN Return(p, "ret_New", ErrSetIsShutting)
       ELSE Goto(p, "N_len") /\ UNCHANGED res
    /\ UNCHANGED <<gateVars, mapVars, shutVars, warmVars, webVars, nmade, op,
                   gt, knd, origst, gor, histVars>>

\* Faulty variant: New refusing only above TorMax.
NewLenOffByOne(p) ==
    /\ pc[p] = "N_len"
    /\ IF Cardinality(tgs) > TorMax
       THEN Return(p, "ret_New", ErrTorMaxReached)
       ELSE Goto(p, "N_factory") /\ UNCHANGED res
    /\ UNCHANGED <<gateVars, mapVars, shutVars, warmVars, webVars, nmade, op,
                   gt, knd, origst, gor, histVars>>

\* New: s.tgs.Len() >= s.cfg.TorMax.
NewLen(p) ==
    /\ pc[p] = "N_len"
    /\ IF Cardinality(tgs) >= TorMax
       THEN Return(p, "ret_New", ErrTorMaxReached)
       ELSE Goto(p, "N_factory") /\ UNCHANGED res
    /\ UNCHANGED <<gateVars, mapVars, shutVars, warmVars, webVars, nmade, op,
                   gt, knd, origst, gor, histVars>>

\* New: s.tf.new(...) fails, or returns a gate with a fresh id.
NewFactory(p) ==
    /\ pc[p] = "N_factory"
    /\ \/ Return(p, "ret_New", ErrOther) /\ UNCHANGED <<gt, nmade>>
       \/ /\ nmade < NumFresh
          /\ nmade' = nmade + 1
          /\ gt' = [gt EXCEPT ![p] = <<KindTor, NumTor + nmade + 1>>]
          /\ Goto(p, "N_set") /\ UNCHANGED res
    /\ UNCHANGED <<gateVars, mapVars, shutVars, warmVars, webVars, op, knd,
                   origst, gor, histVars>>

\* New: s.tgs.Set(gt.id, gt); return gt.id, nil.
NewInsert(p) ==
    /\ pc[p] = "N_set"
    /\ tgs' = tgs \cup {gt[p]}
    /\ Return(p, "ret_New", ErrNil)
    /\ UNCHANGED <<gateVars, wgs, shutVars, warmVars, webVars, nmade, op, gt,
                   knd, origst, gor, histVars>>

New(p) ==
    \/ StartNew(p) \/ NewShut(p) \/ NewLen(p) \/ NewFactory(p) \/ NewInsert(p)

(***************************************************************************)
(* Shutdown: the once, the latch, and the fan-out of ShutdownList.          *)
(***************************************************************************)
\* closeOrSkip(s.shutting).
closeOrSkip(c) == TRUE

\* Faulty variant: Shutdown running its function on every call.
StartShutdownNoOnce(p) ==
    /\ p \in Mgmts /\ CanStart(p)
    /\ once' = "running"
    /\ shutting' = closeOrSkip(shutting)
    /\ Begin(p, "Shutdown", NilID, KindUnknown, "S_tgs", ErrNone)
    /\ UNCHANGED <<gateVars, mapVars, warmVars, webVars, shutGor, shutTask,
                   errs, nmade>>

\* Shutdown(ctx) is called.  The first caller enters onceShut.Do and closes
\* the latch; every other caller waits in onceShut.Do.
StartShutdown(p) ==
    /\ p \in Mgmts /\ CanStart(p)
    /\ IF once = "new"
       THEN /\ once' = "running"
            /\ shutting' = closeOrSkip(shutting)
            /\ Begin(p, "Shutdown", NilID, KindUnknown, "S_tgs", ErrNone)
       ELSE /\ Begin(p, "Shutdown", NilID, KindUnknown, "S_once", ErrNone)
            /\ UNCHANGED <<shutting, once>>
    /\ UNCHANGED <<gateVars, mapVars, warmVars, webVars, shutGor, shutTask,
                   errs, nmade>>

\* onceShut.Do returns to a caller that did not run the function.
ShutdownOnce(p) ==
    /\ pc[p] = "S_once"
    /\ once = "done"
    /\ Return(p, "ret_Shutdown", ErrNil)
    /\ UNCHANGED <<gateVars, mapVars, shutVars, warmVars, webVars, nmade, op,
                   gt, knd, origst, gor, histVars>>

\* ShutdownList(ctx, l): one shutdownOne, with its goroutine, per gate of l.
FanOut(l) ==
    /\ shutGor' = [g \in Gates |-> IF g \in l THEN "spawned" ELSE shutGor[g]]
    /\ shutTask' = [g \in Gates |-> IF g \in l THEN "wait" ELSE shutTask[g]]

\* Shutdown: s.tgs.Len() > 0 and ShutdownList(ctx, s.tgs.Values()).
ShutdownTors(p) ==
    /\ pc[p] = "S_tgs"
    /\ FanOut(tgs)
    /\ Goto(p, "S_wgs")
    /\ UNCHANGED <<gateVars, mapVars, warmVars, webVars, shutting, once, errs,
                   nmade, op, gt, knd, origst, res, gor, histVars>>

\* Faulty variant: Shutdown closing the Direct gate along with the others.
ShutdownWGsAndDirect(p) ==
    /\ pc[p] = "S_wgs"
    /\ FanOut(wgs \cup {DirectID})
    /\ Goto(p, "S_collect")
    /\ UNCHANGED <<gateVars, mapVars, warmVars, webVars, shutting, once, errs,
                   nmade, op, gt, knd, origst, res, gor, histVars>>

\* Shutdown: s.wgs.Len() > 0 and ShutdownList(ctx, s.wgs.Values()).
ShutdownWGs(p) ==
    /\ pc[p] = "S_wgs"
    /\ FanOut(wgs)
    /\ Goto(p, "S_collect")
    /\ UNCHANGED <<gateVars, mapVars, warmVars, webVars, shutting, once, errs,
                   nmade, op, gt, knd, origst, res, gor, histVars>>

\* shutdownOne's goroutine in the fan-out: clr.close() runs.  Nobody reads
\* the result once the select has taken ctx.Done().
ShutClose(g) ==
    /\ shutGor[g] = "spawned"
    /\ IF shutTask[g] = "wait"
       THEN \E r \in {"ok", "err"} : shutGor' = [shutGor EXCEPT ![g] = r]
       ELSE shutGor' = [shutGor EXCEPT ![g] = "done"]
    /\ UNCHANGED <<gateVars, mapVars, warmVars, webVars, shutting, once,
                   shutTask, errs, nmade, pc, op, gt, knd, origst, res, gor,
                   histVars>>

\* shutdownOne in the fan-out: the select receives from errc.
ShutTaskRecv(g) ==
    /\ shutTask[g] = "wait"
    /\ shutGor[g] \in {"ok", "err"}
    /\ shutTask' = [shutTask EXCEPT ![g] =
                       IF shutGor[g] = "ok" THEN ErrNil ELSE ErrOther]
    /\ UNCHANGED <<gateVars, mapVars, warmVars, webVars, shutting, once,
                   shutGor, errs, nmade, pc, op, gt, knd, origst, res, gor,
                   histVars>>

\* shutdownOne in the fan-out: the select takes ctx.Done().
ShutTaskCtx(g) ==
    /\ shutTask[g] = "wait"
    /\ shutTask' = [shutTask EXCEPT ![g] = ErrCtx]
    /\ UNCHANGED <<gateVars, mapVars, warmVars, webVars, shutting, once,
                   shutGor, errs, nmade, pc, op, gt, knd, origst, res, gor,
                   histVars>>

\* Faulty variant: collecting stops at the first error.
collectErrsFirst ==
    LET failed == {g \in Gates : shutTask[g] \in {ErrOther, ErrCtx}}
    IN  IF failed = {} THEN {}
        ELSE LET g == CHOOSE h \in failed : TRUE IN {<<g, shutTask[g]>>}

\* collectErrs over the results of the fan-out: the error of every gate whose
\* shutdownOne returned one, written <<gate, error>>.
collectErrs ==
    {<<g, shutTask[g]>> :
        g \in {h \in Gates : shutTask[h] \in {ErrOther, ErrCtx}}}

\* Faulty variant: errc closed without wg.Wait(), so that collectErrs ends
\* while tasks are still running.
ShutdownCollectEarly(p) ==
    /\ pc[p] = "S_collect"
    /\ once' = "done"
    /\ errs' = collectErrs
    /\ Return(p, "ret_Shutdown", IF errs' = {} THEN ErrNil ELSE ErrJoined)
    /\ UNCHANGED <<gateVars, mapVars, warmVars, webVars, shutting, shutGor,
                   shutTask, nmade, op, gt, knd, origst, gor, histVars>>

\* Shutdown: collectErrs(errc) ends once every task has sent its result; the
\* once is done and Shutdown returns errors.Join(errs...).
ShutdownCollect(p) ==
    /\ pc[p] = "S_collect"
    /\ \A g \in Gates : shutTask[g] # "wait"
    /\ once' = "done"
    /\ errs' = collectErrs
    /\ Return(p, "ret_Shutdown", IF errs' = {} THEN ErrNil ELSE ErrJoined)
    /\ UNCHANGED <<gateVars, mapVars, warmVars, webVars, shutting, shutGor,
                   shutTask, nmade, op, gt, knd, origst, gor, histVars>>

Shutdown(p) ==
    \/ StartShutdown(p) \/ ShutdownOnce(p) \/ ShutdownTors(p)
    \/ ShutdownWGs(p) \/ ShutdownCollect(p)

ShutdownList(g) ==
    \/ ShutClose(g) \/ ShutTaskRecv(g) \/ ShutTaskCtx(g)

Next ==
    \/ \E p \in Procs :
          \/ Request(p)
          \/ ForState(p) \/ RefreshOne(p) \/ CloseOne(p)
          \/ New(p) \/ Shutdown(p)
    \/ \E g \in Gates : ShutdownList(g)

Spec == Init /\ [][Next]_vars
(***************************************************************************)
(* ByKind on its own: the polling loop of byKindReady over a Set that no    *)
(* other call is changing.  NewSet takes any lists of gates; a gate in a    *)
(* map may be in any state and the latch may have been closed.              *)
(***************************************************************************)
InitPick ==
    /\ tgs \in SUBSET TorIDs
    /\ wgs \in SUBSET WGIDs
    /\ gst \in [Gates -> States] /\ gst[DirectID] = stateReady
    /\ \A g \in Gates : gst[g] # stateReady => g \in tgs \cup wgs
    /\ nreq = [g \in Gates |-> 0]
    /\ refreshing = [g \in TorIDs |-> FALSE]
    /\ shutting \in BOOLEAN
    /\ once = IF shutting THEN "done" ELSE "new"
    /\ nmade = 0
    /\ ncalls = [p \in Procs |-> 0]
    /\ pc = [p \in Procs |-> "idle"]
    /\ op = [p \in Procs |-> "none"]
    /\ gt = [p \in Procs |-> NilID]
    /\ knd = [p \in Procs |-> KindUnknown]
    /\ origst = [p \in Procs |-> stateReady]
    /\ res = [p \in Procs |-> ErrNone]
    /\ gor = [p \in Procs |-> "none"]
    /\ shutGor = [g \in Gates |-> "none"]
    /\ shutTask = [g \in Gates |-> "none"]
    /\ errs = {}
    /\ startShut = [p \in Procs |-> FALSE]
    /\ refWith = [p \in Procs |-> {}]
    /\ warming = FALSE
    /\ warmGor = [g \in Gates |-> "none"]
    /\ warmTask = [g \in Gates |-> "none"]
    /\ warmBy = [g \in Gates |-> 0]
    /\ SvcIdle /\ MgmtIdle /\ KindIdle

NextPick ==
    \E p \in Reqs :
        \/ PickByKind(p) \/ ByKindShut(p) \/ ByKindPick(p) \/ ByKindReady(p)

SpecPick == InitPick /\ [][NextPick]_vars

(***************************************************************************)
(* The Set before or after a Shutdown: every gate Ready and in its map, the *)
(* latch open or closed (Shutdown neither empties the maps nor changes a    *)
(* gate's state), every call free to be made.                               *)
(***************************************************************************)
InitShut ==
    /\ InitPick
    /\ gst = [g \in Gates |-> stateReady]
    /\ tgs \subseteq InitTorIDs
    /\ wgs = WGIDs

SpecShut == InitShut /\ [][Next]_vars

(***************************************************************************)
(* The gate state cell on its own: any caller may ask any gate for any      *)
(* transition at any time (baseGate.toState).                               *)
(***************************************************************************)
\* baseGate.toState(st), up to and including its first compare-and-swap.
GateToState(p, g, st) ==
    /\ pc[p] = "idle"
    /\ op' = [op EXCEPT ![p] = st]
    /\ gt' = [gt EXCEPT ![p] = g]
    /\ origst' = [origst EXCEPT ![p] = gst[g]]
    /\ gst' = [gst EXCEPT ![g] =
                  IF st = stateReady THEN toReady(@)
                  ELSE IF st = stateMaintenance THEN toMaint(@)
                  ELSE toClosed1(@)]
    /\ Goto(p, IF st = stateClosed /\ gst[g] # stateReady
               THEN "C_cas2" ELSE "idle")
    /\ UNCHANGED <<nreq, refreshing, mapVars, shutVars, warmVars, webVars,
                   nmade, knd, res, gor, histVars>>

\* baseGate.toState(stateClosed): toClosed's second compare-and-swap.
GateToClosed2(p) ==
    /\ pc[p] = "C_cas2"
    /\ gst' = [gst EXCEPT ![gt[p]] = toClosed2(@)]
    /\ Goto(p, "idle")
    /\ UNCHANGED <<nreq, refreshing, mapVars, shutVars, warmVars, webVars,
                   nmade, op, gt, knd, origst, res, gor, histVars>>

NextCell ==
    \E p \in Mgmts :
        \/ \E g \in Gates, st \in States : GateToState(p, g, st)
        \/ GateToClosed2(p)

SpecCell == Init /\ [][NextCell]_vars

(***************************************************************************)
(* The request counter on its own: any caller may call AddReq, DidReq and   *)
(* resetReqs on any gate at any time, in any order.                         *)
(***************************************************************************)
\* baseGate.AddReq().
CountAddReq(p, g) ==
    /\ nreq[g] < MaxNreq
    /\ nreq' = [nreq EXCEPT ![g] = addReq(@)]
    /\ gt' = [gt EXCEPT ![p] = g]
    /\ Goto(p, "ret_addReq")
    /\ UNCHANGED <<gst, refreshing, mapVars, shutVars, warmVars, webVars,
                   nmade, op, knd, origst, res, gor, histVars>>

\* baseGate.DidReq(); the position tells which branch of didReq was taken.
CountDidReq(p, g) ==
    /\ nreq' = [nreq EXCEPT ![g] = didReq(@)]
    /\ gt' = [gt EXCEPT ![p] = g]
    /\ Goto(p, IF nreq[g] > 0 THEN "ret_didReq" ELSE "ret_didReqZero")
    /\ UNCHANGED <<gst, refreshing, mapVars, shutVars, warmVars, webVars,
                   nmade, op, knd, origst, res, gor, histVars>>

\* baseGate.resetReqs().
CountResetReqs(p, g) ==
    /\ nreq' = [nreq EXCEPT ![g] = resetReqs(@)]
    /\ gt' = [gt EXCEPT ![p] = g]
    /\ Goto(p, "ret_resetReqs")
    /\ UNCHANGED <<gst, refreshing, mapVars, shutVars, warmVars, webVars,
                   nmade, op, knd, origst, res, gor, histVars>>

NextCount ==
    \E p \in Reqs, g \in Gates :
        \/ CountAddReq(p, g)
        \/ CountDidReq(p, g)
        \/ CountResetReqs(p, g)

SpecCount == Init /\ [][NextCount]_vars

(***************************************************************************)
(* Warmup: the warming flag and the fan-out over the two kind-maps.  The    *)
(* Set is as NewSet may have built it, with the latch open or closed.       *)
(***************************************************************************)
\* Callers between Warmup's compare-and-swap and its deferred store.
WarmRunning == {p \in Mgmts : pc[p] \in {"W_tgs", "W_wgs", "W_collect"}}

\* Warmup(ctx) is called: s.isShutting().
StartWarmup(p) ==
    /\ p \in Mgmts /\ CanStart(p)
    /\ IF isShutting
       THEN Begin(p, "Warmup", NilID, KindUnknown, "ret_Warmup",
                  ErrSetIsShutting)
       ELSE Begin(p, "Warmup", NilID, KindUnknown, "W_cas", ErrNone)
    /\ UNCHANGED <<gateVars, mapVars, shutVars, warmVars, webVars, nmade>>

\* Faulty variant: Warmup setting the flag without testing it.
WarmupCasNoTest(p) ==
    /\ pc[p] = "W_cas"
    /\ warming' = TRUE
    /\ Goto(p, "W_tgs")
    /\ UNCHANGED <<gateVars, mapVars, shutVars, webVars, warmGor, warmTask,
                   warmBy, nmade, op, gt, knd, origst, res, gor, histVars>>

\* Warmup: atomic.CompareAndSwapUint32(&s.warming.value, 0, 1).
WarmupCas(p) ==
    /\ pc[p] = "W_cas"
    /\ warming' = CompareAndSwap(warming, FALSE, TRUE)
    /\ IF warming = FALSE
       THEN Goto(p, "W_tgs") /\ UNCHANGED res
       ELSE Return(p, "ret_Warmup", ErrSetIsWarmingUp)
    /\ UNCHANGED <<gateVars, mapVars, shutVars, webVars, warmGor, warmTask,
                   warmBy, nmade, op, gt, knd, origst, gor, histVars>>

\* WarmupList(ctx, l): one warmupOne, with its goroutine, per gate of l.
WarmFanOut(p, l) ==
    /\ warmGor' = [g \in Gates |-> IF g \in l THEN "spawned" ELSE warmGor[g]]
    /\ warmTask' = [g \in Gates |-> IF g \in l THEN "wait" ELSE warmTask[g]]
    /\ warmBy' = [g \in Gates |-> IF g \in l THEN p ELSE warmBy[g]]

\* Warmup: s.tgs.Len() > 0 and WarmupList(ctx, s.tgs.Values()).
WarmupTors(p) ==
    /\ pc[p] = "W_tgs"
    /\ WarmFanOut(p, tgs)
    /\ Goto(p, "W_wgs")
    /\ UNCHANGED <<gateVars, mapVars, shutVars, webVars, warming, nmade, op,
                   gt, knd, origst, res, gor, histVars>>

\* Warmup: s.wgs.Len() > 0 and WarmupList(ctx, s.wgs.Values()).
WarmupWGs(p) ==
    /\ pc[p] = "W_wgs"
    /\ WarmFanOut(p, wgs)
    /\ Goto(p, "W_collect")
    /\ UNCHANGED <<gateVars, mapVars, shutVars, webVars, warming, nmade, op,
                   gt, knd, origst, res, gor, histVars>>

\* warmupOne's goroutine: wmr.warmup(ctx) returns.  Nobody reads the result
\* once the select has taken ctx.Done().
WarmRun(g) ==
    /\ warmGor[g] = "spawned"
    /\ IF warmTask[g] = "wait"
       THEN \E r \in {"ok", "err"} : warmGor' = [warmGor EXCEPT ![g] = r]
       ELSE warmGor' = [warmGor EXCEPT ![g] = "done"]
    /\ UNCHANGED <<gateVars, mapVars, shutVars, webVars, warming, warmTask,
                   warmBy, nmade, pc, op, gt, knd, origst, res, gor, histVars>>

\* warmupOne: the select receives from out.
WarmTaskRecv(g) ==
    /\ warmTask[g] = "wait"
    /\ warmGor[g] \in {"ok", "err"}
    /\ warmTask' = [warmTask EXCEPT ![g] =
                       IF warmGor[g] = "ok" THEN ErrNil ELSE ErrOther]
    /\ UNCHANGED <<gateVars, mapVars, shutVars, webVars, warming, warmGor,
                   warmBy, nmade, pc, op, gt, knd, origst, res, gor, histVars>>

\* warmupOne: the select takes ctx.Done().
WarmTaskCtx(g) ==
    /\ warmTask[g] = "wait"
    /\ warmTask' = [warmTask EXCEPT ![g] = ErrCtx]
    /\ UNCHANGED <<gateVars, mapVars, shutVars, webVars, warming, warmGor,
                   warmBy, nmade, pc, op, gt, knd, origst, res, gor, histVars>>

\* Warmup: collectErrs(errc) ends once both lists have sent their result,
\* Warmup returns errors.Join(errs...) and the deferred store clears the flag.
WarmupCollect(p) ==
    /\ pc[p] = "W_collect"
    /\ \A g \in Gates : warmTask[g] # "wait"
    /\ warming' = FALSE
    /\ Return(p, "ret_Warmup",
              IF \E g \in Gates : warmBy[g] = p /\ warmTask[g] # ErrNil
              THEN ErrJoined ELSE ErrNil)
    /\ UNCHANGED <<gateVars, mapVars, shutVars, webVars, warmGor, warmTask,
                   warmBy, nmade, op, gt, knd, origst, gor, histVars>>

Warmup(p) ==
    \/ StartWarmup(p) \/ WarmupCas(p) \/ WarmupTors(p) \/ WarmupWGs(p)
    \/ WarmupCollect(p)

WarmupList(g) ==
    \/ WarmRun(g) \/ WarmTaskRecv(g) \/ WarmTaskCtx(g)

NextWarm ==
    \/ \E p \in Mgmts : Warmup(p)
    \/ \E g \in Gates : WarmupList(g)

SpecWarm == InitPick /\ [][NextWarm]_vars

(***************************************************************************)
(* HandleHTTP: one request through the HTTP pipeline, its header and the    *)
(* upstream's drawn from small sets, the gateSet answering as it may.       *)
(***************************************************************************)
IdVals ==
    {<<>>, <<<<>>>>, <<<<UUID1>>>>,
     <<<<"urn:uuid:6ba7b810-9dad-11d1-80b4-00c04fd430c8">>>>,
     <<<<"not-a-uuid">>>>}

TypeVals == {<<>>, <<<<>>>>, <<<<"tor">>>>, <<<<"openvpn">>>>}

ConnVals ==
    {<<>>,
     <<<<"close">>>>,
     <<<<"x-custom">>>>,
     <<<<"X-Custom", ",", " ", "keep-alive">>>>,
     <<<<" ", ",", "X-Other", " ", ",">>>>,
     <<<<"close">>, <<"X-Custom">>>>}

\* A header with the given steering and Connection values, the names of
\* extra present, and every other hop-by-hop name present when hop is set.
MkHdr(id, ty, conn, extra, hop) ==
    [n \in HdrNames |->
        CASE n = headerProxyGateID -> id
          [] n = headerProxyGateType -> ty
          [] n = "Connection" -> conn
          [] n \in extra -> <<<<"v">>>>
          [] n \in PlainHop /\ hop -> <<<<"v">>>>
          [] OTHER -> <<>>]

ReqHdrs ==
    {MkHdr(id, ty, conn, extra, hop) :
        id \in IdVals, ty \in TypeVals, conn \in ConnVals,
        extra \in SUBSET {"X-Custom", "X-Other", "X-Forwarded-For"},
        hop \in BOOLEAN}

RespHdrs ==
    {MkHdr(id, <<>>, conn, extra, hop) :
        id \in {<<>>, <<<<UUID1>>>>}, conn \in ConnVals,
        extra \in SUBSET {"X-Custom", "X-Other"}, hop \in BOOLEAN}

\* What the gateSet may answer to the call c: ErrNil stands for a gate.
SetAnswers(c) ==
    IF c[1] = "ByID" THEN {ErrNil, ErrGateNotFound, ErrGateNotReady}
    ELSE {ErrNil, ErrCtx, ErrNoRandomGate, ErrSetIsShutting, ErrKindUnknown}

InitHTTP ==
    /\ InitSet /\ tgs = InitTorIDs
    /\ rq \in ReqHdrs
    /\ sent = EmptyHdr /\ rs = EmptyHdr /\ wr = EmptyHdr
    /\ call = <<>> /\ dreq = 0 /\ hpc = "start" /\ hres = ErrNone
    /\ cw = <<>> /\ xfer = [d \in Dirs |-> <<"none", 0>>]
    /\ MgmtIdle /\ KindIdle

\* HandleHTTP: s.pickDialer(ctx, r.Header), up to the call of the gateSet.
HTTPPick ==
    /\ hpc = "start"
    /\ call' = pickDialer(rq)
    /\ IF call' = <<"ErrInvalidUUID">>
       THEN hpc' = "done" /\ hres' = ErrInvalidUUID
       ELSE hpc' = "picked" /\ UNCHANGED hres
    /\ UNCHANGED <<setVars, mgmtVars, kindVars, rq, dreq, sent, rs, wr, cw,
                   xfer>>

\* HandleHTTP: the gateSet answers; on a gate, AddReq, the two deletions and
\* X-Forwarded-For, and dialer.Do(r) is called.
HTTPForward ==
    /\ hpc = "picked"
    /\ \E e \in SetAnswers(call) :
          IF e # ErrNil
          THEN hpc' = "done" /\ hres' = e /\ UNCHANGED <<dreq, sent>>
          ELSE /\ dreq' = dreq + 1
               /\ \E ok \in BOOLEAN :
                     LET h == delConnectionHeaders(delHeaders(newHopHeaders,
                                                              rq))
                     IN  sent' = IF ok
                                 THEN addHostToXForwardedHeader(h, "ip")
                                 ELSE h
               /\ hpc' = "do"
               /\ UNCHANGED hres
    /\ UNCHANGED <<setVars, mgmtVars, kindVars, rq, call, rs, wr, cw, xfer>>

\* HandleHTTP: Do returns; on an error web.WriteError, else the two deletions
\* on the response, copyHeader and the body; the deferred DidReq runs.
HTTPRespond ==
    /\ hpc = "do"
    /\ \/ /\ wr' = WriteError(wr)
          /\ hres' = ErrOther
          /\ UNCHANGED rs
       \/ \E r \in RespHdrs :
             /\ rs' = r
             /\ wr' = copyHeader(wr,
                         delConnectionHeaders(delHeaders(newHopHeaders, r)))
             /\ hres' = ErrNil
    /\ dreq' = dreq - 1
    /\ hpc' = "done"
    /\ UNCHANGED <<setVars, mgmtVars, kindVars, rq, call, sent, cw, xfer>>

NextHTTP == HTTPPick \/ HTTPForward \/ HTTPRespond

SpecHTTP == InitHTTP /\ [][NextHTTP]_vars

(***************************************************************************)
(* HandleConnect: one CONNECT request through the tunnel pipeline, and the  *)
(* two pipelines side by side with requests that differ only in their       *)
(* steering headers.                                                        *)
(***************************************************************************)
MaxBytes == 1    \* bytes each direction of a tunnel carries

\* Pumpe.data200 and the status line of writeErrToConn.
data200 == "HTTP/1.1 200 Connection established"

line502 == "HTTP/1.1 502 Bad Gateway"

\* writeErrToConn(dst, rerr): what dst has been written afterwards.
writeErrToConn(dst, rerr) ==
    IF rerr = ErrNil THEN dst ELSE Append(dst, <<line502, rerr>>)

InitPipe ==
    /\ InitSet /\ tgs = InitTorIDs
    /\ rq \in {MkHdr(id, ty, <<>>, {}, FALSE) : id \in IdVals, ty \in TypeVals}
    /\ sent = EmptyHdr /\ rs = EmptyHdr /\ wr = EmptyHdr
    /\ call = <<>> /\ dreq = 0 /\ hres = ErrNone
    /\ hpc \in {"start", "c_start"}
    /\ cw = <<>> /\ xfer = [d \in Dirs |-> <<"none", 0>>]
    /\ MgmtIdle /\ KindIdle

\* HandleConnect: w.(http.Hijacker) and hj.Hijack().
ConnHijack ==
    /\ hpc = "c_start"
    /\ \/ hpc' = "done" /\ hres' = ErrHijackingNotSupported
       \/ hpc' = "done" /\ hres' = ErrOther
       \/ hpc' = "c_hijacked" /\ UNCHANGED hres
    /\ UNCHANGED <<setVars, mgmtVars, kindVars, rq, call, dreq, sent, rs, wr,
                   cw, xfer>>

\* HandleConnect: s.pickDialer(ctx, r.Header), up to the call of the gateSet.
ConnPick ==
    /\ hpc = "c_hijacked"
    /\ call' = pickDialer(rq)
    /\ IF call' = <<"ErrInvalidUUID">>
       THEN /\ cw' = writeErrToConn(cw, ErrInvalidUUID)
            /\ hpc' = "done" /\ hres' = ErrInvalidUUID
       ELSE hpc' = "c_picked" /\ UNCHANGED <<hres, cw>>
    /\ UNCHANGED <<setVars, mgmtVars, kindVars, rq, dreq, sent, rs, wr, xfer>>

\* HandleConnect: the gateSet answers; on an error the 502 line, on a gate
\* AddReq.
ConnAnswer ==
    /\ hpc = "c_picked"
    /\ \E e \in SetAnswers(call) :
          IF e # ErrNil
          THEN /\ cw' = writeErrToConn(cw, e)
               /\ hpc' = "done" /\ hres' = e /\ UNCHANGED dreq
          ELSE /\ dreq' = dreq + 1
               /\ hpc' = "c_dial" /\ UNCHANGED <<hres, cw>>
    /\ UNCHANGED <<setVars, mgmtVars, kindVars, rq, call, sent, rs, wr, xfer>>

\* Faulty variant: a dial error returned without the 502 line.
ConnDialSilent ==
    /\ hpc = "c_dial"
    /\ \/ hpc' = "done" /\ hres' = ErrOther /\ dreq' = dreq - 1
       \/ hpc' = "c_write" /\ UNCHANGED <<hres, dreq>>
    /\ UNCHANGED <<setVars, mgmtVars, kindVars, rq, call, sent, rs, wr, cw,
                   xfer>>

\* HandleConnect: dialer.DialContext(ctx, "tcp", addr); on an error the 502
\* line, and the deferred DidReq runs.
ConnDial ==
    /\ hpc = "c_dial"
    /\ \/ /\ cw' = writeErrToConn(cw, ErrOther)
          /\ hpc' = "done" /\ hres' = ErrOther
          /\ dreq' = dreq - 1
       \/ hpc' = "c_write" /\ UNCHANGED <<hres, cw, dreq>>
    /\ UNCHANGED <<setVars, mgmtVars, kindVars, rq, call, sent, rs, wr, xfer>>

\* Faulty variant: DidReq called at the end of the tunnel only.
ConnWrite200NoDefer ==
    /\ hpc = "c_write"
    /\ \/ hpc' = "done" /\ hres' = ErrOther /\ UNCHANGED <<cw, xfer>>
       \/ /\ cw' = Append(cw, <<data200>>)
          /\ xfer' = [d \in Dirs |-> <<"run", 0>>]
          /\ hpc' = "c_tunnel" /\ UNCHANGED hres
    /\ UNCHANGED <<setVars, mgmtVars, kindVars, rq, call, dreq, sent, rs, wr>>

\* HandleConnect: srcConn.Write(s.data200); on an error the deferred DidReq
\* runs, else the two xferData goroutines start.
ConnWrite200 ==
    /\ hpc = "c_write"
    /\ \/ /\ hpc' = "done" /\ hres' = ErrOther
          /\ dreq' = dreq - 1
          /\ UNCHANGED <<cw, xfer>>
       \/ /\ cw' = Append(cw, <<data200>>)
          /\ xfer' = [d \in Dirs |-> <<"run", 0>>]
          /\ hpc' = "c_tunnel" /\ UNCHANGED <<hres, dreq>>
    /\ UNCHANGED <<setVars, mgmtVars, kindVars, rq, call, sent, rs, wr>>

\* xferData: io.Copy moves a byte in direction d.
ConnCopy(d) ==
    /\ hpc = "c_tunnel"
    /\ xfer[d][1] = "run" /\ xfer[d][2] < MaxBytes
    /\ xfer' = [xfer EXCEPT ![d] = <<"run", @[2] + 1>>]
    /\ cw' = IF d = "down" THEN Append(cw, <<"byte">>) ELSE cw
    /\ UNCHANGED <<setVars, mgmtVars, kindVars, rq, call, dreq, sent, rs, wr,
                   hpc, hres>>

\* xferData: io.Copy returns, the halves are closed and wg.Done() runs.
ConnCopyEnd(d) ==
    /\ hpc = "c_tunnel"
    /\ xfer[d][1] = "run"
    /\ xfer' = [xfer EXCEPT ![d] = <<"done", @[2]>>]
    /\ UNCHANGED <<setVars, mgmtVars, kindVars, rq, call, dreq, sent, rs, wr,
                   hpc, hres, cw>>

\* HandleConnect: wg.Wait() returns, the handler returns nil and the
\* deferred DidReq runs.
ConnWait ==
    /\ hpc = "c_tunnel"
    /\ \A d \in Dirs : xfer[d][1] = "done"
    /\ hpc' = "done" /\ hres' = ErrNil
    /\ dreq' = dreq - 1
    /\ UNCHANGED <<setVars, mgmtVars, kindVars, rq, call, sent, rs, wr, cw,
                   xfer>>

NextConn ==
    \/ ConnHijack \/ ConnPick \/ ConnAnswer \/ ConnDial \/ ConnWrite200
    \/ \E d \in Dirs : ConnCopy(d) \/ ConnCopyEnd(d)
    \/ ConnWait

SpecPipe == InitPipe /\ [][NextHTTP \/ NextConn]_vars

(***************************************************************************)
(* Kind: ParseKind and Kind.String applied to kinds and texts drawn from    *)
(* small sets.                                                              *)
(***************************************************************************)
KindTexts ==
    {"direct", "tor", "wireguard", "unknown", "", "Tor", "openvpn",
     "something_else"}

InitKind ==
    /\ InitSet /\ tgs = InitTorIDs
    /\ SvcIdle /\ MgmtIdle
    /\ kin \in Kinds \cup {KindUnknown}
    /\ raw \in KindTexts
    /\ kstr = <<>> /\ pk = <<>> /\ rk = <<>>

\* kin.String().
KindString ==
    /\ kstr = <<>>
    /\ kstr' = <<String(kin)>>
    /\ UNCHANGED <<setVars, svcVars, mgmtVars, kin, raw, pk, rk>>

\* ParseKind(raw).
KindParse ==
    /\ pk = <<>>
    /\ pk' = ParseKind(raw)
    /\ UNCHANGED <<setVars, svcVars, mgmtVars, kin, raw, kstr, rk>>

\* ParseKind of the text kin.String() returned.
KindParseBack ==
    /\ kstr # <<>> /\ rk = <<>>
    /\ rk' = ParseKind(kstr[1])
    /\ UNCHANGED <<setVars, svcVars, mgmtVars, kin, raw, kstr, pk>>

NextKind == KindString \/ KindParse \/ KindParseBack

SpecKind == InitKind /\ [][NextKind]_vars

(***************************************************************************)
(* The management handlers: one request to list, create, refresh or stop,   *)
(* its body or id parameter and the service's answer drawn from small sets. *)
(* An error is written as the set of the sentinel errors it is (errors.Is); *)
(* the empty set is nil.                                                    *)
(***************************************************************************)
StatusClientClosedConn == 499

Is(err, target) == target \in err

\* The errors the service method behind an operation returns: Gates those of
\* GateIDs, Create those of Set.New and the Tor factory, Refresh those of
\* Set.RefreshOne, Stop those of Set.CloseOne.
SvcErrs(o) ==
    CASE o = "list" -> {{ErrKindUnknown}}
      [] o = "create" ->
            {{ErrKindNotSupported}, {ErrSetIsShutting}, {ErrTorMaxReached},
             {ErrCanceled}, {ErrDeadlineExceeded}, {ErrOther}}
      [] o = "refresh" ->
            {{ErrKindNotSupported}, {ErrGateNotFound}, {ErrSetIsShutting},
             {ErrCanceled}, {ErrDeadlineExceeded}, {ErrGateIsRefreshing},
             {ErrOther}}
      [] o = "stop" ->
            {{ErrKindNotSupported}, {ErrGateNotFound}, {ErrSetIsShutting},
             {ErrCanceled}, {ErrDeadlineExceeded}, {ErrOther}}

\* The request's body (create) or id parameter (refresh, stop).
MgmtParams(o) ==
    CASE o = "list" -> {<<>>}
      [] o = "create" ->
            {<<"readerr">>, <<"badjson">>, <<"kind", "tor">>,
             <<"kind", "direct">>, <<"kind", "openvpn">>}
      [] OTHER -> {<<"id", <<>>>>, <<"id", <<UUID1>>>>,
                   <<"id", <<"not-a-uuid">>>>}

InitMgmt ==
    /\ InitSet /\ tgs = InitTorIDs
    /\ SvcIdle /\ KindIdle
    /\ mop \in {"list", "create", "refresh", "stop"}
    /\ mparam \in MgmtParams(mop)
    /\ merr \in SvcErrs(mop) \cup {{}}
    /\ mstatus = 0 /\ mrep = {}

\* What a handler writes: the status, and the error in the body.
Respond(code, err) ==
    /\ mstatus' = code
    /\ mrep' = err
    /\ UNCHANGED <<setVars, svcVars, kindVars, mop, mparam, merr>>

\* Proxy.List.
MgmtList ==
    /\ mop = "list" /\ mstatus = 0
    /\ IF merr = {} THEN Respond(200, {})
       ELSE IF Is(merr, ErrCanceled)
            THEN Respond(StatusClientClosedConn, merr)
       ELSE IF Is(merr, ErrKindUnknown) THEN Respond(400, merr)
       ELSE Respond(500, merr)

\* Proxy.Create.
MgmtCreate ==
    /\ mop = "create" /\ mstatus = 0
    /\ IF mparam[1] \in {"readerr", "badjson"} THEN Respond(400, {ErrBody})
       ELSE IF ParseKind(mparam[2])[2] # ErrNil
            THEN Respond(400, {ParseKind(mparam[2])[2]})
       ELSE IF merr = {} THEN Respond(201, {})
       ELSE IF Is(merr, ErrCanceled)
            THEN Respond(StatusClientClosedConn, merr)
       ELSE IF Is(merr, ErrSetIsShutting) THEN Respond(502, merr)
       ELSE IF Is(merr, ErrKindNotSupported) THEN Respond(422, merr)
       ELSE IF Is(merr, ErrTorMaxReached) THEN Respond(409, merr)
       ELSE Respond(500, merr)

\* Proxy.Refresh.
MgmtRefresh ==
    /\ mop = "refresh" /\ mstatus = 0
    /\ IF mparam[2] = <<>> THEN Respond(400, {ErrInvalidParam})
       ELSE IF ~uuidParse(mparam[2])[2] THEN Respond(400, {ErrInvalidUUID})
       ELSE IF merr = {} THEN Respond(200, {})
       ELSE IF Is(merr, ErrCanceled)
            THEN Respond(StatusClientClosedConn, merr)
       ELSE IF Is(merr, ErrDeadlineExceeded) THEN Respond(504, merr)
       ELSE IF Is(merr, ErrSetIsShutting) THEN Respond(502, merr)
       ELSE IF Is(merr, ErrGateNotFound) THEN Respond(404, merr)
       ELSE IF Is(merr, ErrKindNotSupported) THEN Respond(422, merr)
       ELSE IF Is(merr, ErrGateIsRefreshing) THEN Respond(409, merr)
       ELSE Respond(500, merr)

\* Proxy.Stop.
MgmtStop ==
    /\ mop = "stop" /\ mstatus = 0
    /\ IF mparam[2] = <<>> THEN Respond(400, {ErrInvalidParam})
       ELSE IF ~uuidParse(mparam[2])[2] THEN Respond(400, {ErrInvalidUUID})
       ELSE IF merr = {} THEN Respond(200, {})
       ELSE IF Is(merr, ErrCanceled)
            THEN Respond(StatusClientClosedConn, merr)
       ELSE IF Is(merr, ErrDeadlineExceeded) THEN Respond(504, merr)
       ELSE IF Is(merr, ErrSetIsShutting) THEN Respond(502, merr)
       ELSE IF Is(merr, ErrGateNotFound) THEN Respond(404, merr)
       ELSE IF Is(merr, ErrKindNotSupported) THEN Respond(422, merr)
       ELSE Respond(500, merr)

NextMgmt == MgmtList \/ MgmtCreate \/ MgmtRefresh \/ MgmtStop

SpecMgmt == InitMgmt /\ [][NextMgmt]_vars

(***************************************************************************)
(* Properties.                                                              *)
(***************************************************************************)
InMaps(g) == g \in tgs \cup wgs

\* A proxy request has selected gate g and has not yet called DidReq.
InFlightOn(g) ==
    \E r \in Reqs : pc[r] \in {"addReq", "inflight"} /\ gt[r] = g

\* forState has returned nil to p and p has not yet done anything else.
ForStateOK(p) == pc[p] = "G_wait" /\ gor[p] = "spawned"

\* p's call of the gate's refresh / close is executing.
Mutating(p) == op[p] \in {"RefreshOne", "CloseOne"} /\ gor[p] = "running"

\* C1. Drain restore: when forState returns the context's error, the gate is
\* in the map of its kind and in the state it had before the call.
C1_DrainRestore ==
    [][\A p \in Mgmts :
          (pc[p] = "TR_set" /\ pc'[p] = "ret_forState")
          => /\ InMaps(gt[p])'
             /\ gst'[gt[p]] = origst[p]]_vars

\* C2. Drain quiescence: after forState(gate, Closed) has returned nil, the
\* gate has no request in flight and is in neither map.
C2_DrainQuiescence ==
    \A p \in Mgmts :
        (op[p] = "CloseOne" /\ ForStateOK(p))
        => nreq[gt[p]] = 0 /\ ~InMaps(gt[p])

\* C3. Drain before mutate: the refresh or close that RefreshOne / CloseOne
\* invokes never executes while a request that selected the gate is between
\* its selection and its DidReq.
C3_DrainBeforeMutate ==
    \A p \in Mgmts : Mutating(p) => ~InFlightOn(gt[p])

\* C4. Admission cap: the Tor map never holds more than TorMax gates.
C4_AdmissionCap == Cardinality(tgs) <= TorMax

\* C5. Once the latch is closed, New adds no gate to the Tor map.
C5_NoAdmissionAfterLatch ==
    [][\A p \in Mgmts :
          (shutting /\ pc[p] = "N_set" /\ pc'[p] = "ret_New")
          => tgs' \subseteq tgs]_vars

\* C6. Shutting poison: the latch closes with the first Shutdown and never
\* reopens, and a New(ctx, Tor) that starts once Shutdown has been invoked
\* returns ErrSetIsShutting without reaching the factory.
C6_ShuttingPoison ==
    /\ [][shutting => shutting']_vars
    /\ [](/\ (\E p \in Mgmts : op[p] = "Shutdown") => shutting
          /\ shutting <=> once # "new"
          /\ \A p \in Mgmts :
                (op[p] = "New" /\ knd[p] = KindTor /\ startShut[p])
                => /\ pc[p] \in {"N_shut", "ret_New"}
                   /\ pc[p] = "ret_New" => res[p] = ErrSetIsShutting)

C6_Witness ==
    \E p \in Mgmts :
        /\ op[p] = "New" /\ knd[p] = KindTor /\ startShut[p]
        /\ pc[p] = "ret_New" /\ res[p] = ErrSetIsShutting
        /\ nmade = 0

\* C7. Map-state invariant: a gate in a map is Ready or Maintenance, never
\* Closed, and a gate is out of its map for as long as its refresh runs.
C7_MapState ==
    /\ \A g \in Gates : InMaps(g) => gst[g] # stateClosed
    /\ \A p \in Mgmts :
          (op[p] = "RefreshOne" /\ GorLive(p)) => ~InMaps(gt[p])

\* The callers whose refresh of g is sending NEWNYM.
Signalling(g) ==
    {p \in Mgmts : op[p] = "RefreshOne" /\ gt[p] = g /\ gor[p] = "running"}

\* C8. Refresh mutual exclusion: at most one refresh of a Tor gate is in
\* progress at any time.
C8_RefreshMutex == \A g \in TorIDs : Cardinality(Signalling(g)) <= 1

C8_Witness ==
    \E p, q \in Mgmts :
        /\ p # q /\ op[p] = "RefreshOne" /\ op[q] = "RefreshOne"
        /\ gt[p] = gt[q]
        /\ gor[p] = "running" /\ gor[q] = "busy"

\* refresh() has returned in p's goroutine.
RefreshDone(p) == op[p] = "RefreshOne" /\ gor[p] \in {"ok", "err", "busy"}

\* C9, as claimed. Of two concurrent refresh calls on one Tor gate exactly one
\* succeeds and the other returns ErrGateIsRefreshing.
C9_ExactlyOneSucceeds ==
    \A p, q \in Mgmts :
        (q \in refWith[p] /\ RefreshDone(p) /\ RefreshDone(q))
        => \/ gor[p] = "ok" /\ gor[q] = "busy"
           \/ gor[p] = "busy" /\ gor[q] = "ok"

\* C9, amended. A refresh call returns ErrGateIsRefreshing, sending nothing,
\* exactly when another refresh of the gate is sending NEWNYM at the moment
\* of its compare-and-swap; otherwise it sends NEWNYM itself.
C9_BusyIffOverlap ==
    [][\A p \in Mgmts :
          (op[p] = "RefreshOne" /\ gor[p] = "spawned" /\ gor'[p] # "spawned")
          => IF Signalling(gt[p]) # {}
             THEN gor'[p] = "busy"
             ELSE gor'[p] = "running"]_vars

C9_Witness ==
    \E p, q \in Mgmts :
        /\ q \in refWith[p] \/ p \in refWith[q]
        /\ op[p] = "RefreshOne" /\ op[q] = "RefreshOne"
        /\ gor[p] = "busy" /\ gor[q] = "ok"

\* The legal transitions of a gate's state.
Legal ==
    {<<stateReady, stateMaintenance>>, <<stateReady, stateClosed>>,
     <<stateMaintenance, stateReady>>, <<stateMaintenance, stateClosed>>}

\* C10. Gate state machine: every change of a gate's state is a legal
\* transition, every other request changes nothing, and a Closed gate stays
\* Closed.
C10_StateMachine ==
    [][\A g \in Gates :
          /\ gst'[g] # gst[g] => <<gst[g], gst'[g]>> \in Legal
          /\ gst[g] = stateClosed => gst'[g] = stateClosed]_vars

C10_Witness ==
    \E p \in Mgmts :
        /\ pc[p] = "idle" /\ op[p] = stateReady
        /\ origst[p] = stateClosed /\ gst[gt[p]] = stateClosed
\* C11. Never-underflow: under every interleaving of AddReq, DidReq and
\* resetReqs on a gate, DidReq in excess included, the in-flight count is
\* at least zero, and DidReq on a zero count leaves it at zero.
C11_NeverUnderflow ==
    /\ [](\A g \in Gates : nreq[g] >= 0)
    /\ [][\A p \in Reqs, g \in Gates :
             (CountDidReq(p, g) /\ nreq[g] = 0) => nreq'[g] = 0]_vars

C11_Witness ==
    \E p \in Reqs : pc[p] = "ret_didReqZero" /\ nreq[gt[p]] = 0

\* The map of kind k holds a Ready gate and the latch is open.
HasReady(k) == ~shutting /\ \E g \in MapOf(k) : gst[g] = stateReady

C13_DirectImmutability ==
    /\ \A p \in Mgmts :
          (op[p] \in {"RefreshOne", "CloseOne"} /\ gt[p] = DirectID)
          => pc[p] = "ret_direct" /\ res[p] = ErrKindNotSupported
    /\ \A p \in Reqs :
          (op[p] = "ByID" /\ gt[p] = DirectID)
          => pc[p] \in {"B_ready", "addReq", "inflight", "ret_req"}

C13_Witness ==
    /\ \E p \in Mgmts : op[p] = "RefreshOne" /\ gt[p] = DirectID
    /\ \E p \in Mgmts : op[p] = "CloseOne" /\ gt[p] = DirectID
    /\ \E p \in Reqs : op[p] = "ByID" /\ gt[p] = DirectID /\ pc[p] = "addReq"

C15_ByIDOutcomes ==
    [][\A p \in Reqs :
          /\ (ncalls'[p] # ncalls[p] /\ op'[p] = "ByID")
             => IF gt'[p] = DirectID \/ InMaps(gt'[p])
                THEN pc'[p] = "B_ready"
                ELSE pc'[p] = "ret_pick" /\ res'[p] = ErrGateNotFound
          /\ (pc[p] = "B_ready" /\ pc'[p] # "B_ready")
             => IF gst[gt[p]] = stateReady
                THEN pc'[p] = "addReq" /\ gt'[p] = gt[p]
                ELSE pc'[p] = "ret_pick" /\ res'[p] = ErrGateNotReady]_vars

C15_Witness ==
    \E p \in Reqs :
        /\ op[p] = "ByID" /\ pc[p] = "ret_pick" /\ res[p] = ErrGateNotReady
        /\ gst[gt[p]] = stateMaintenance

\* RefreshOne has begun to drain p's gate and has not yet put it back.
UnderRefresh(p) ==
    /\ op[p] = "RefreshOne"
    /\ pc[p] \in {"F_remove", "F_shut", "F_noReqs", "G_wait",
                  "TC_reset", "TC_cas", "TC_set"}

\* C16. A ByID that returns while the Tor gate it names is under refresh
\* returns ErrGateNotFound, never ErrGateNotReady (nor the gate).
C16_NotFoundUnderRefresh ==
    [][\A p \in Reqs, m \in Mgmts :
          (/\ UnderRefresh(m) /\ op'[p] = "ByID" /\ gt'[p] = gt[m]
           /\ pc[p] # pc'[p] /\ pc'[p] \in {"ret_pick", "addReq"})
          => pc'[p] = "ret_pick" /\ res'[p] = ErrGateNotFound]_vars

\* p's call is a ByKind of a kind that has a map.
ByKindMap(p) == op[p] = "ByKind" /\ knd[p] \in {KindTor, KindWireGuard}

\* C17. ByKind(ctx, Tor|WireGuard), turn by turn: with the latch closed it
\* returns ErrSetIsShutting; else with the kind's map empty, ErrNoRandomGate;
\* else it picks a gate of that map and returns it if it is Ready; if not it
\* retries after the delay, or returns the context's error at the deadline.
\* It never returns a gate of another kind.
C17_ByKindOutcomes ==
    /\ [](\A p \in Reqs :
             ByKindMap(p)
             => /\ pc[p] \in {"K_ready", "addReq", "inflight", "ret_req"}
                   => KindOf(gt[p]) = knd[p]
                /\ pc[p] = "ret_pick"
                   => res[p] \in {ErrSetIsShutting, ErrNoRandomGate, ErrCtx})
    /\ [][\A p \in Reqs :
             /\ (ncalls'[p] # ncalls[p] /\ ByKindMap(p)')
                => IF shutting
                   THEN pc'[p] = "ret_pick" /\ res'[p] = ErrSetIsShutting
                   ELSE pc'[p] = "K_pick"
             /\ (pc[p] = "K_shut" /\ pc'[p] # "K_shut")
                => IF shutting
                   THEN pc'[p] = "ret_pick" /\ res'[p] = ErrSetIsShutting
                   ELSE pc'[p] = "K_pick"
             /\ (pc[p] = "K_pick" /\ pc'[p] # "K_pick")
                => IF MapOf(knd[p]) = {}
                   THEN pc'[p] = "ret_pick" /\ res'[p] = ErrNoRandomGate
                   ELSE pc'[p] = "K_ready" /\ gt'[p] \in MapOf(knd[p])
             /\ (pc[p] = "K_ready" /\ pc'[p] # "K_ready")
                => IF gst[gt[p]] = stateReady
                   THEN pc'[p] = "addReq" /\ gt'[p] = gt[p]
                   ELSE \/ pc'[p] = "K_shut"
                        \/ pc'[p] = "ret_pick" /\ res'[p] = ErrCtx]_vars

C17_Witness ==
    \E p \in Reqs :
        /\ ByKindMap(p) /\ pc[p] = "ret_pick" /\ res[p] = ErrCtx
        /\ KindOf(gt[p]) = knd[p] /\ gst[gt[p]] = stateReady

\* C18. A gate is invisible to selection once its state has left Ready: a
\* caller that ByID or ByKind has just handed a gate (and that has not yet
\* called AddReq) holds a gate whose state is Ready.
C18_InvisibleOnceNotReady ==
    \A p \in Reqs : pc[p] = "addReq" => gst[gt[p]] = stateReady

\* The callers that are running the function of onceShut.Do.
InOnce == {p \in Mgmts : pc[p] \in {"S_tgs", "S_wgs", "S_collect"}}

\* C19. Shutdown is idempotent: over all sequential and concurrent Shutdown
\* calls the latch is closed once and the fan-out runs once (one caller runs
\* it, and no gate's close is started a second time); only that caller can
\* return errors, every other call returns nil.
C19_ShutdownIdempotent ==
    /\ [](/\ Cardinality(InOnce) <= 1
          /\ InOnce # {} => once = "running"
          /\ Cardinality({p \in Mgmts : op[p] = "Shutdown"
                                         /\ res[p] = ErrJoined}) <= 1)
    /\ [][/\ shutting' # shutting => once = "new" /\ ~shutting
          /\ \A g \in Gates :
                (shutGor'[g] = "spawned" /\ shutGor[g] # "spawned")
                => shutGor[g] = "none"
          /\ \A p \in Mgmts :
                /\ (pc'[p] = "S_tgs" /\ pc[p] # "S_tgs") => once = "new"
                /\ (pc[p] = "S_once" /\ pc'[p] # "S_once")
                   => once = "done" /\ res'[p] = ErrNil]_vars

C19_Witness ==
    \E p, q \in Mgmts :
        /\ p # q /\ op[p] = "Shutdown" /\ op[q] = "Shutdown"
        /\ pc[p] = "ret_Shutdown" /\ res[p] = ErrJoined
        /\ pc[q] = "ret_Shutdown" /\ res[q] = ErrNil

\* The gates whose shutdownOne, in the fan-out, returned an error.
FailedGates == {g \in Gates : shutTask[g] \in {ErrOther, ErrCtx}}

\* C20. Shutdown's fan-out does not short-circuit: the first Shutdown starts
\* a close for every gate in the Tor and WireGuard maps, failed closes or
\* not, and its result holds one error for each gate that failed, the
\* gate's own error or the context's.
C20_FanOutComplete ==
    [][/\ \A p \in Mgmts :
             /\ (pc[p] = "S_tgs" /\ pc'[p] = "S_wgs")
                => \A g \in tgs : shutGor'[g] = "spawned"
             /\ (pc[p] = "S_wgs" /\ pc'[p] = "S_collect")
                => \A g \in wgs : shutGor'[g] = "spawned"
             /\ (pc[p] = "S_collect" /\ pc'[p] = "ret_Shutdown")
                => /\ \A g \in Gates :
                         shutGor[g] # "none"
                         => shutTask[g] \in {ErrNil, ErrOther, ErrCtx}
                   /\ \A g \in Gates :
                         /\ <<g, ErrOther>> \in errs' <=> shutTask[g] = ErrOther
                         /\ <<g, ErrCtx>> \in errs' <=> shutTask[g] = ErrCtx
                   /\ Cardinality(errs') = Cardinality(FailedGates)
                   /\ res'[p] = ErrJoined <=> FailedGates # {}
       /\ \A g \in Gates :
             (shutTask[g] = "wait" /\ shutTask'[g] # "wait")
             => /\ shutTask'[g] = ErrOther => shutGor[g] = "err"
                /\ shutTask'[g] = ErrNil => shutGor[g] = "ok"]_vars

C20_Witness ==
    /\ once = "done"
    /\ \E g, h \in Gates :
          /\ <<g, ErrOther>> \in errs /\ <<h, ErrCtx>> \in errs
          /\ shutGor[g] = "err" /\ shutGor[h] = "done"

\* C21: at most one Warmup is between its compare-and-swap and its return, the
\* warming flag is set exactly while one is, a Warmup whose compare-and-swap
\* runs while another is running returns ErrSetIsWarmingUp and has warmed no
\* gate up, and one whose compare-and-swap runs while none is running starts.
C21_WarmupExclusive ==
    /\ [](/\ Cardinality(WarmRunning) <= 1
          /\ warming <=> WarmRunning # {}
          /\ \A p \in Mgmts :
                op[p] = "Warmup" /\ res[p] = ErrSetIsWarmingUp
                   => \A g \in Gates : warmBy[g] # p)
    /\ [][\A p \in Mgmts :
             pc[p] = "W_cas" /\ pc'[p] # "W_cas"
                => IF WarmRunning # {}
                   THEN /\ pc'[p] = "ret_Warmup"
                        /\ res'[p] = ErrSetIsWarmingUp
                        /\ UNCHANGED warmVars
                   ELSE pc'[p] = "W_tgs" /\ warming']_vars

\* A Warmup was rejected while another was collecting its fan-out, which
\* has warmed a gate up.
C21_Witness ==
    \E p, q \in Mgmts :
        /\ op[p] = "Warmup" /\ res[p] = ErrSetIsWarmingUp
        /\ pc[q] = "W_collect"
        /\ \E g \in Gates : warmBy[g] = q /\ warmTask[g] = ErrNil

\* p's RefreshOne is the only management call made so far and found its gate
\* Ready.
RefreshAlone(p) ==
    /\ op[p] = "RefreshOne" /\ origst[p] = stateReady
    /\ \A q \in Mgmts \ {p} : ncalls[q] = 0

\* forState's revert returns the context's error to p.
RevertReturns(p) == pc[p] = "TR_set" /\ pc'[p] = "ret_forState"

C23_DrainRevert ==
    [][\A p \in Mgmts :
          (\A q \in Mgmts \ {p} : ncalls[q] = 0)
          => /\ pc[p] = "TR_reset" /\ pc'[p] # "TR_reset"
                   => nreq'[gt[p]] = 0
             /\ RevertReturns(p)
                   => /\ res'[p] = ErrCtx
                      /\ gt[p] \in MapOf(KindOf(gt[p]))'
                      /\ gst'[gt[p]] = origst[p]]_vars

\* The request's header has been handed to the dialer's Do.
Forwarded == hpc = "do" \/ (hpc = "done" /\ hres \in {ErrNil, ErrOther})

\* The first value of a header, the empty text when the header is absent.
FirstOf(hdr, n) == IF hdr[n] = <<>> THEN <<>> ELSE hdr[n][1]

\* C24: pickDialer uses a non-empty Proxy-Pumpe-Gate-Id (ByID, or InvalidUUID
\* without a call of the set when it does not parse) whatever the type
\* header says, the type header (ByKind) only when the id header is absent
\* or empty, and Random only when both are.
C24_SteeringPrecedence ==
    hpc \notin {"idle", "start"}
    => LET id == FirstOf(rq, headerProxyGateID)
           ty == FirstOf(rq, headerProxyGateType)
       IN  /\ id # <<>> /\ uuidParse(id)[2]
                => call = <<"ByID", uuidParse(id)[1]>>
           /\ id # <<>> /\ ~uuidParse(id)[2]
                => /\ call[1] \notin {"ByID", "ByKind", "Random"}
                   /\ hpc = "done" /\ hres = ErrInvalidUUID
           /\ id = <<>> /\ ty # <<>> => call = <<"ByKind", ty>>
           /\ id = <<>> /\ ty = <<>> => call = <<"Random">>

\* A request carrying both steering headers was answered by ByID.
C24_Witness ==
    /\ hpc = "do" /\ call[1] = "ByID"
    /\ rq[headerProxyGateID] # <<>> /\ rq[headerProxyGateType] = <<<<"tor">>>>

\* The names that the values h of a Connection header list: the non-empty
\* comma-separated tokens, as header names.
Listed(h) ==
    {CanonicalMIMEHeaderKey(KeyOf(TrimSpace(Split(h[i])[j]))) :
        <<i, j>> \in {<<i, j>> \in (1..Len(h)) \X (1..5) :
                         /\ j <= Len(Split(h[i]))
                         /\ TrimSpace(Split(h[i])[j]) # <<>>}}

\* C27: no header that the request's Connection header lists is in the
\* request handed to Do, and none that the upstream response's Connection
\* header lists is in the response written to the client.
C27_ConnectionListedStripped ==
    /\ Forwarded
          => \A n \in Listed(rq["Connection"]) \cap HdrNames : sent[n] = <<>>
    /\ hpc = "done" /\ hres = ErrNil
          => \A n \in Listed(rs["Connection"]) \cap HdrNames : wr[n] = <<>>

\* C28: the request handed to Do carries neither steering header nor any
\* other header of the hop-by-hop list, and the response written to the
\* client carries no header of the hop-by-hop list.
C28_HeaderHygiene ==
    \A n \in {headerProxyGateID, headerProxyGateType, "Connection"}
                \cup PlainHop :
        /\ Forwarded => sent[n] = <<>>
        /\ wr[n] = <<>>

\* A request with both steering headers and the hop-by-hop headers was
\* forwarded, and a response with hop-by-hop headers was copied to the client.
C28_Witness ==
    /\ hpc = "done" /\ hres = ErrNil
    /\ rq[headerProxyGateID] # <<>> /\ rq[headerProxyGateType] # <<>>
    /\ rq["Keep-Alive"] # <<>> /\ rq["Connection"] # <<>>
    /\ rs["Proxy-Connection"] # <<>> /\ rs["Connection"] # <<>>
    /\ rs[headerProxyGateID] # <<>>
    /\ sent["X-Other"] # <<>> /\ wr["X-Other"] # <<>>

\* C25: parsing the text of Direct, Tor or WireGuard gives the kind back
\* with no error; parsing "unknown", or any text that is none of the three
\* kinds' texts, gives KindUnknown with ErrKindUnknown.
C25_KindRoundTrip ==
    /\ rk # <<>>
          => IF kin \in {KindDirect, KindTor, KindWireGuard}
             THEN rk = <<kin, ErrNil>>
             ELSE rk = <<KindUnknown, ErrKindUnknown>>
    /\ pk # <<>> /\ raw \notin {"direct", "tor", "wireguard"}
          => pk = <<KindUnknown, ErrKindUnknown>>

\* WireGuard went through String and ParseKind, and "unknown" was parsed.
C25_Witness ==
    /\ kin = KindWireGuard /\ kstr = <<"wireguard">>
    /\ rk = <<KindWireGuard, ErrNil>>
    /\ raw = "unknown" /\ pk = <<KindUnknown, ErrKindUnknown>>

\* C26: whatever the operation, the status written for an error the service
\* returned, or for an invalid parameter, id or kind, is the one the table of
\* the management API gives that error kind.
C26_StatusTable ==
    LET TableStatus(e) ==
            CASE e = ErrCanceled -> StatusClientClosedConn
              [] e = ErrDeadlineExceeded -> 504
              [] e = ErrKindUnknown -> 400
              [] e = ErrKindNotSupported -> 422
              [] e = ErrSetIsShutting -> 502
              [] e = ErrTorMaxReached -> 409
              [] e = ErrGateNotFound -> 404
              [] e = ErrGateIsRefreshing -> 409
              [] e = ErrInvalidParam -> 400
              [] e = ErrInvalidUUID -> 400
              [] OTHER -> 500
    IN  /\ mstatus # 0 /\ merr # {} /\ mrep = merr
              => \A e \in merr : mstatus = TableStatus(e)
        /\ mstatus # 0 /\ mrep \in {{ErrInvalidParam}, {ErrInvalidUUID},
                                    {ErrKindUnknown}}
              => \A e \in mrep : mstatus = TableStatus(e)

\* RefreshOne's final toState returns nil to p.
RefreshReturns(p) == pc[p] = "TC_set" /\ pc'[p] = "ret_toState"

\* C29: when RefreshOne returns nil, the gate is in the Tor map, Ready, with
\* no request in flight.
C29_RefreshSuccess ==
    [][\A p \in Mgmts :
          RefreshReturns(p)
          => /\ res'[p] = ErrNil
             /\ gt[p] \in tgs'
             /\ gst'[gt[p]] = stateReady
             /\ nreq'[gt[p]] = 0]_vars

\* refreshOne returns an error to p, which RefreshOne returns.
RefreshFails(p) ==
    /\ op[p] = "RefreshOne"
    /\ pc[p] # "ret_refreshOne" /\ pc'[p] = "ret_refreshOne"

CloseReturns(p) ==
    /\ op[p] = "CloseOne"
    /\ pc[p] = "G_wait" /\ pc'[p] = "ret_shutdownOne"

\* C31: when CloseOne returns after a successful forState(Closed), whether the
\* gate's close succeeded or failed, the gate is in state Closed and in
\* neither map; the error of a failed close is the one returned and the
\* return does not put the gate back.
C31_CloseOutcome ==
    [][\A p \in Mgmts :
          CloseReturns(p)
          => /\ gst'[gt[p]] = stateClosed
             /\ ~InMaps(gt[p])'
             /\ res'[p] = (IF gor[p] = "err" THEN ErrOther ELSE ErrNil)
                   \/ res'[p] = ErrCtx
             /\ tgs' = tgs /\ wgs' = wgs]_vars


\* p's New takes a step.
NewSteps(p) == op'[p] = "New" /\ pc'[p] # pc[p]

\* p's New returns.
NewReturns(p) == NewSteps(p) /\ pc'[p] \in {"ret_kind", "ret_New"}

\* C32: New evaluates its rules in order: a kind other than Tor is refused
\* with KindNotSupported whatever the latch and the map; then a fired latch
\* gives SetIsShutting whatever the map; then a Tor map of TorMax or more
\* gates gives TorMaxReached; the factory is reached only past these three
\* checks and its error is returned.  A New that returns an error leaves the
\* Tor map as it is and returns the nil id; a New that returns nil has added
\* exactly one entry, keyed by the id it returns.
C32_NewAdmission ==
    [][\A p \in Mgmts :
          /\ (NewSteps(p) /\ pc[p] \in RetPCs)
                => IF knd'[p] # KindTor
                   THEN pc'[p] = "ret_kind" /\ res'[p] = ErrKindNotSupported
                   ELSE pc'[p] = "N_shut"
          /\ (NewSteps(p) /\ pc[p] = "N_shut")
                => IF shutting
                   THEN pc'[p] = "ret_New" /\ res'[p] = ErrSetIsShutting
                   ELSE pc'[p] = "N_len"
          /\ (NewSteps(p) /\ pc[p] = "N_len")
                => IF Cardinality(tgs) >= TorMax
                   THEN pc'[p] = "ret_New" /\ res'[p] = ErrTorMaxReached
                   ELSE pc'[p] = "N_factory"
          /\ (NewSteps(p) /\ pc'[p] = "N_factory") => pc[p] = "N_len"
          /\ (NewSteps(p) /\ pc[p] = "N_factory")
                => \/ pc'[p] = "ret_New" /\ res'[p] = ErrOther
                   \/ pc'[p] = "N_set" /\ nmade' = nmade + 1
          /\ (NewSteps(p) /\ pc[p] # "N_factory") => nmade' = nmade
          /\ (NewReturns(p) /\ res'[p] # ErrNil)
                => tgs' = tgs /\ wgs' = wgs /\ gt'[p] = NilID
          /\ (NewReturns(p) /\ res'[p] = ErrNil)
                => /\ pc[p] = "N_set" /\ gt'[p] # NilID
                   /\ gt'[p] \notin tgs /\ tgs' = tgs \cup {gt'[p]}
                   /\ wgs' = wgs
          /\ (NewSteps(p) /\ ~NewReturns(p)) => tgs' = tgs /\ wgs' = wgs]_vars

\* A New(ctx, Tor) has returned nil and the gate it made is in the Tor map,
\* and another New has been refused with TorMaxReached.
C32_Witness ==
    \E p, q \in Mgmts :
        /\ op[p] = "New" /\ pc[p] = "ret_New" /\ res[p] = ErrNil
        /\ gt[p] \in tgs
        /\ op[q] = "New" /\ pc[q] = "ret_New" /\ res[q] = ErrTorMaxReached
        /\ gt[q] = NilID


\* forState returns to p from the isShutting poll of its loop.
ShutReturns(p) ==
    /\ op[p] \in {"RefreshOne", "CloseOne"}
    /\ pc[p] = "F_shut" /\ pc'[p] = "ret_forState"

\* Where a call is once forState has gone past its first isShutting poll.
PastPoll ==
    {"F_noReqs", "G_wait", "TR_reset", "TR_cas", "TR_cas2", "TR_set",
     "TC_reset", "TC_cas", "TC_set", "ret_refreshOne", "ret_toState",
     "ret_shutdownOne"}

\* No RefreshOne or CloseOne other than p's has been called.
DrainAlone(p) ==
    /\ ncalls[p] = 1
    /\ \A q \in Mgmts \ {p} :
          \/ ncalls[q] = 0
          \/ ncalls[q] = 1 /\ op[q] \in {"New", "Shutdown"}

Counted == {"do", "c_dial", "c_write", "c_tunnel"}

\* C34: HandleConnect and HandleHTTP call AddReq once, when the pick has
\* given a gate, and DidReq once, on whichever path they return after that
\* (dial error, Do error, error writing the 200 line, normal completion);
\* when the pick fails they call neither.
C34_BalancedAccounting ==
    /\ [](dreq = IF hpc \in Counted THEN 1 ELSE 0)
    /\ [][/\ dreq' \in {dreq - 1, dreq, dreq + 1}
          /\ dreq' = dreq + 1
                <=> (hpc \in {"picked", "c_picked"} /\ hpc' \in Counted)
          /\ dreq' = dreq - 1 <=> (hpc \in Counted /\ hpc' = "done")
          /\ (hpc \in Counted /\ hpc' # "done") => hpc' \in Counted
          /\ (hpc \notin Counted /\ hpc' = "done")
                => hres' # ErrNil /\ dreq' = 0
          /\ hpc = "done" => hpc' = "done"]_vars

\* A CONNECT whose dial failed has returned: AddReq and DidReq are balanced.
C34_Witness ==
    /\ hpc = "done" /\ hres = ErrOther /\ call # <<>>
    /\ cw = <<<<line502, ErrOther>>>>
    /\ dreq = 0

\* C35: on a pick error or a dial error HandleConnect writes one 502 line,
\* carrying the error, to the hijacked connection, returns that error and
\* never writes the 200 line; the 200 line is written only once the dial has
\* succeeded and before any tunnel byte; HandleConnect returns from the
\* tunnel only when both copy directions have finished.
C35_ConnectOrdering ==
    /\ [](/\ \A i, j \in 1..Len(cw) :
                /\ (cw[i][1] = line502 /\ cw[j][1] = line502) => i = j
                /\ cw[i][1] = line502 => cw[j] # <<data200>>
                /\ cw[i] = <<data200>> => i = 1
                /\ cw[i] = <<"byte">> => cw[1] = <<data200>>
          /\ (\E d \in Dirs : xfer[d][1] # "none")
                => cw # <<>> /\ cw[1] = <<data200>>)
    /\ [][/\ (hpc \in {"c_hijacked", "c_picked", "c_dial"} /\ hpc' = "done")
                => hres' # ErrNil /\ cw' = <<<<line502, hres'>>>>
          /\ (cw' # cw /\ cw'[Len(cw')] = <<data200>>)
                => hpc = "c_write" /\ hpc' = "c_tunnel"
          /\ (hpc = "c_tunnel" /\ hpc' = "done")
                => \A d \in Dirs : xfer[d][1] = "done"]_vars

\* A tunnel has run to its end: the 200 line, then a byte, were written to
\* the hijacked connection, and both directions have finished.
C35_Witness ==
    /\ hpc = "done" /\ hres = ErrNil
    /\ cw = <<<<data200>>, <<"byte">>>>
    /\ \A d \in Dirs : xfer[d][1] = "done"


\* p calls RefreshOne.
RefreshCalled(p) == op'[p] = "RefreshOne" /\ ncalls'[p] # ncalls[p]

\* C36: RefreshOne on the Direct id returns KindNotSupported, on an id that
\* is in neither map GateNotFound, on the id of a WireGuard gate
\* KindNotSupported; each of these leaves every gate's state and in-flight
\* counter and both maps as they are, and starts nothing on the gate.
C36_RefreshRejections ==
    /\ [][\A p \in Mgmts :
             RefreshCalled(p)
             => /\ gt'[p] = DirectID
                      => pc'[p] = "ret_direct" /\ res'[p] = ErrKindNotSupported
                /\ (gt'[p] # DirectID /\ ~InMaps(gt'[p]))
                      => pc'[p] = "ret_byID" /\ res'[p] = ErrGateNotFound
                /\ (InMaps(gt'[p]) /\ KindOf(gt'[p]) = KindWireGuard)
                      => pc'[p] = "ret_kind" /\ res'[p] = ErrKindNotSupported
                /\ (InMaps(gt'[p]) /\ KindOf(gt'[p]) = KindTor)
                      => pc'[p] = "F_orig" /\ res'[p] = ErrNone
                /\ pc'[p] # "F_orig"
                      => /\ gst' = gst /\ nreq' = nreq
                         /\ refreshing' = refreshing
                         /\ tgs' = tgs /\ wgs' = wgs]_vars
    /\ [](\A p \in Mgmts :
             (op[p] = "RefreshOne"
                 /\ pc[p] \in {"ret_direct", "ret_byID", "ret_kind"})
             => gor[p] = "none")

\* A RefreshOne on the id of the WireGuard gate has been refused: the gate is
\* in its map and Ready.
C36_Witness ==
    \E p \in Mgmts :
        /\ op[p] = "RefreshOne" /\ pc[p] = "ret_kind"
        /\ res[p] = ErrKindNotSupported
        /\ gt[p] \in wgs /\ gst[gt[p]] = stateReady


\* The proxy requests that have called AddReq on g and not yet DidReq.
Counting(g) == {r \in Reqs : pc[r] = "inflight" /\ gt[r] = g}

\* C37: in every reachable state the in-flight counter of a gate is the
\* number of proxy requests that have called AddReq on it and not yet DidReq.
C37_CountAccuracy ==
    \A g \in Gates : nreq[g] = Cardinality(Counting(g))


\* The calls of g's close made so far: by the goroutine of a CloseOne's
\* shutdownOne, and by the goroutine of Shutdown's fan-out.
ClosesOf(g) ==
    Cardinality({p \in Mgmts : /\ op[p] = "CloseOne" /\ gt[p] = g
                               /\ gor[p] \in {"running", "ok", "err", "done"}})
    + (IF shutGor[g] \in {"ok", "err", "done"} THEN 1 ELSE 0)

\* C38: whatever the interleaving of CloseOne calls, RefreshOne and Shutdown,
\* the close of a Tor or WireGuard gate is invoked at most once.
C38_CloseAtMostOnce ==
    \A g \in TorIDs \cup WGIDs : ClosesOf(g) <= 1


\* g has been in a map of the Set: it is in one, or a RefreshOne / CloseOne
\* found it there, or New inserted it, or Shutdown's snapshot held it.
Admitted(g) ==
    \/ InMaps(g)
    \/ shutGor[g] # "none"
    \/ \E p \in Mgmts :
          /\ gt[p] = g
          /\ \/ /\ op[p] \in {"RefreshOne", "CloseOne"}
                /\ pc[p] \notin {"ret_direct", "ret_byID", "ret_kind"}
             \/ op[p] = "New" /\ pc[p] = "ret_New" /\ res[p] = ErrNil

\* A goroutine that is about to call g's close.
ClosePending(g) ==
    \/ shutGor[g] = "spawned"
    \/ \E p \in Mgmts : op[p] = "CloseOne" /\ gt[p] = g /\ gor[p] = "spawned"

\* C39: once Shutdown has returned, the close of every Tor and WireGuard
\* gate that was ever in the Set has been invoked (or is being invoked by a
\* goroutine already started), gates detached by a RefreshOne / CloseOne and
\* gates inserted by a concurrent New included.
C39_NoLeakPastShutdown ==
    once = "done"
    => \A g \in TorIDs \cup WGIDs :
          Admitted(g) => ClosesOf(g) >= 1 \/ ClosePending(g)


(***************************************************************************)
(* The fan-outs of Shutdown and Warmup together, on a Set whose gates are   *)
(* Ready.  The scheduler runs every goroutine that can take a step; for     *)
(* each gate whose task is waiting, its close or warmup returns or ctx is   *)
(* done.  A ctx that is never done and a close that never returns are both  *)
(* left possible, but not for the same gate.                                *)
(***************************************************************************)
NextFan ==
    \/ \E p \in Mgmts : Shutdown(p) \/ Warmup(p)
    \/ \E g \in Gates : ShutdownList(g) \/ WarmupList(g)

FairFan ==
    /\ \A p \in Mgmts :
          /\ WF_vars(\/ ShutdownOnce(p) \/ ShutdownTors(p)
                     \/ ShutdownWGs(p) \/ ShutdownCollect(p))
          /\ WF_vars(\/ WarmupCas(p) \/ WarmupTors(p)
                     \/ WarmupWGs(p) \/ WarmupCollect(p))
    /\ \A g \in Gates :
          /\ WF_vars(ShutTaskRecv(g))
          /\ WF_vars(WarmTaskRecv(g))
          /\ WF_vars(shutTask[g] = "wait" /\ (ShutClose(g) \/ ShutTaskCtx(g)))
          /\ WF_vars(warmTask[g] = "wait" /\ (WarmRun(g) \/ WarmTaskCtx(g)))

SpecFan == InitShut /\ [][NextFan]_vars /\ FairFan

\* A result of a per-gate task.
Results == {ErrNil, ErrOther, ErrCtx}

\* C40: under SpecFan's fairness every Shutdown and every Warmup that was
\* called returns; a per-gate task delivers one result, which stays until a
\* later Warmup fans out again; Shutdown and Warmup return from collecting
\* only when every task they started has delivered its result; and the
\* goroutine of a task can always deliver (its send never has to wait for a
\* receiver).
C40_FanOutTermination ==
    /\ \A p \in Mgmts :
          (op[p] \in {"Shutdown", "Warmup"} /\ ~Returned(p)) ~> Returned(p)
    /\ \A g \in Gates :
          /\ (shutTask[g] = "wait") ~> (shutTask[g] \in Results)
          /\ (warmTask[g] = "wait") ~> (warmTask[g] \in Results)
    /\ [](\A g \in Gates :
             /\ shutGor[g] = "spawned" => ENABLED ShutClose(g)
             /\ warmGor[g] = "spawned" => ENABLED WarmRun(g))
    /\ [][/\ \A g \in Gates :
             /\ shutTask[g] \in Results => shutTask'[g] = shutTask[g]
             /\ warmTask[g] \in Results
                => \/ warmTask'[g] = warmTask[g]
                   \/ /\ warmTask'[g] = "wait"
                      /\ \E p \in Mgmts : /\ pc[p] \in {"W_tgs", "W_wgs"}
                                          /\ pc'[p] # pc[p]
       /\ \A p \in Mgmts :
             /\ (pc[p] = "S_collect" /\ pc'[p] # "S_collect")
                => /\ \A g \in tgs \cup wgs : shutTask[g] \in Results
                   /\ \A g \in Gates : shutTask[g] # "wait"
             /\ (pc[p] = "W_collect" /\ pc'[p] # "W_collect")
                => /\ \A g \in tgs \cup wgs :
                         warmBy[g] = p /\ warmTask[g] \in Results
                   /\ \A g \in Gates : warmTask[g] # "wait"]_vars

\* Shutdown and Warmup both returned after fanning out: tasks of each had
\* received a result, a task of each had taken ctx.Done(), and the goroutine
\* that task left behind has delivered into the buffer since.
C40_Witness ==
    \E p, q \in Mgmts :
       /\ op[p] = "Shutdown" /\ pc[p] = "ret_Shutdown" /\ once = "done"
       /\ op[q] = "Warmup" /\ pc[q] = "ret_Warmup"
       /\ \E g, h \in Gates :
             /\ shutTask[g] = ErrCtx /\ shutGor[g] = "done"
             /\ shutTask[h] \in {ErrNil, ErrOther}
             /\ warmBy[g] = q /\ warmBy[h] = q
             /\ {warmTask[g], warmTask[h]} = {ErrCtx, ErrNil}
             /\ \E k \in {g, h} : warmTask[k] = ErrCtx /\ warmGor[k] = "done"

====
